---- MODULE Spec2Model ----
(***************************************************************************)
(* Game/move coordination layer of the 3D chess client (src/src/App.tsx,   *)
(* src/src/chess/logic.ts, src/src/chess/engine.ts).                       *)
(*                                                                         *)
(* The rules engine (chess.js) is a library the client calls; its rules    *)
(* are written out here on the real 8x8 board so that legality, check,     *)
(* mate, notation and replay are computed and not assumed.  The position   *)
(* text kept in localStorage is written by fen() and read by new Chess(fen)*)
(* character by character; the launch parameter and the agent's level are  *)
(* texts that parseInt reads.                                              *)
(*                                                                         *)
(* Operations covered: board clicks (and the agent's touchPiece, which     *)
(* calls onSquareClick), Undo, New Game (and the agent's newGame), the     *)
(* settings panel, the mount effects, the AI trigger and the engine        *)
(* callback, the agent's getBestMove lookup, setDifficulty and movePiece,  *)
(* and the Next Level button.                                              *)
(***************************************************************************)
EXTENDS Integers, Sequences, FiniteSets, TLC

(***************************************************************************)
(* Bounds of the exploration.                                              *)
(***************************************************************************)
\* longest moveHistory explored: a handler that would append beyond it is not taken
MaxHistory == 4
\* longest moveHistory explored when every move in it is a knight move
MaxShuffle == 8
\* most search requests (scheduled, sent or answered) in flight at once
MaxPending == 2
\* most configuration operations (reset, colour, mode, difficulty, reload) in a run
MaxConfigOps == 1
\* the count of end notifications for one position stops here
MaxNotified == 2
\* bestmove lines waiting for the callback when the worker posts at will
MaxLines == 1
\* most movePiece calls of the agent waiting at one time
MaxAgentMoves == 1
\* most best-move lookups the agent starts in a run
MaxLookups == 2

(***************************************************************************)
(* Board geometry.  A square is 0..63, a1 = 0, h1 = 7, a8 = 56, h8 = 63.   *)
(***************************************************************************)
Squares == 0 .. 63
FileNames == <<"a", "b", "c", "d", "e", "f", "g", "h">>
File(s) == s % 8
Rank(s) == s \div 8
\* the square written f r in algebraic notation, Sq("e", 2) = e2
Sq(f, r) == (CHOOSE i \in 1 .. 8 : FileNames[i] = f) - 1 + 8 * (r - 1)
Abs(x) == IF x < 0 THEN -x ELSE x
Sgn(x) == IF x > 0 THEN 1 ELSE IF x < 0 THEN -1 ELSE 0
MaxOf(x, y) == IF x > y THEN x ELSE y
NoSquare == -1

(***************************************************************************)
(* Texts and parseInt.                                                     *)
(***************************************************************************)
\* what stands for NaN, the result of parseInt on a text without a number
NaN == -1

\* A text parseInt is given is the sequence of its UTF-16 code units, so that
\* every character can stand in it.  The printable ASCII characters by code:
\* those of codes 32 to 95 in AsciiLow and those of codes 97 to 126 in
\* AsciiHigh, each at the place of its code less the code before the first.
AsciiLow == " !\"#$%&'()*+,-./0123456789:;<=>?@ABCDEFGHIJKLMNOPQRSTUVWXYZ[\\]^_"
AsciiHigh == "abcdefghijklmnopqrstuvwxyz{|}~"

\* the code unit of each printable ASCII character but the backtick
CodeOf ==
  [ch \in {SubSeq(AsciiLow, n, n) : n \in 1 .. Len(AsciiLow)}
            \cup {SubSeq(AsciiHigh, n, n) : n \in 1 .. Len(AsciiHigh)} |->
     IF \E n \in 1 .. Len(AsciiLow) : SubSeq(AsciiLow, n, n) = ch
       THEN 31 + (CHOOSE n \in 1 .. Len(AsciiLow) : SubSeq(AsciiLow, n, n) = ch)
       ELSE 96 + (CHOOSE n \in 1 .. Len(AsciiHigh) : SubSeq(AsciiHigh, n, n) = ch)]

\* the code units of a text of printable ASCII characters
Chars(str) == [i \in 1 .. Len(str) |-> CodeOf[SubSeq(str, i, i)]]

\* the printable ASCII character of code unit c
CharOf(c) ==
  IF c < 96 THEN SubSeq(AsciiLow, c - 31, c - 31) ELSE SubSeq(AsciiHigh, c - 96, c - 96)

\* white space parseInt skips ahead of the number (StrWhiteSpaceChar): TAB, LF,
\* VT, FF, CR, space, NBSP, U+1680, U+2000 to U+200A, the line and paragraph
\* separators U+2028 and U+2029, U+202F, U+205F, U+3000 and the BOM U+FEFF
Blanks ==
  {9, 10, 11, 12, 13, 32, 160, 5760, 8232, 8233, 8239, 8287, 12288, 65279}
    \cup (8192 .. 8202)

\* the value of code unit ch as a digit of the radix, -1 when it is none:
\* '0'..'9' are 0..9, 'a'..'z' and 'A'..'Z' are 10..35
DigitOf(ch, radix) ==
  LET value == IF ch \in 48 .. 57 THEN ch - 48
               ELSE IF ch \in 97 .. 122 THEN ch - 87
               ELSE IF ch \in 65 .. 90 THEN ch - 55
               ELSE 36
  IN IF value < radix THEN value ELSE -1

\* the place of the first code unit of str from i on that is not white space
RECURSIVE FirstInk(_, _)
FirstInk(str, i) ==
  IF i <= Len(str) /\ str[i] \in Blanks THEN FirstInk(str, i + 1) ELSE i

\* the number read from place i up to the first code unit that is no digit
RECURSIVE ReadDigits(_, _, _, _)
ReadDigits(str, i, radix, acc) ==
  IF i <= Len(str) /\ DigitOf(str[i], radix) >= 0
    THEN ReadDigits(str, i + 1, radix, acc * radix + DigitOf(str[i], radix))
    ELSE acc

\* parseInt(str, given), given = 0 for a call without radix: leading white
\* space and a sign are skipped, a radix outside 2..36 gives NaN, '0x' or '0X'
\* selects radix 16 when none or 16 is given, the digits up to the first other
\* code unit are read, NaN when there is none
ParseIntRadix(str, given) ==
  LET s == FirstInk(str, 1)
      signed == s <= Len(str) /\ str[s] \in {43, 45}
      negative == signed /\ str[s] = 45
      t == IF signed THEN s + 1 ELSE s
      hex == given \in {0, 16} /\ t + 1 <= Len(str) /\ str[t] = 48 /\ str[t + 1] \in {88, 120}
      radix == IF hex THEN 16 ELSE IF given = 0 THEN 10 ELSE given
      u == IF hex THEN t + 2 ELSE t
  IN IF given # 0 /\ (given < 2 \/ given > 36) THEN NaN
     ELSE IF u > Len(str) \/ DigitOf(str[u], radix) < 0 THEN NaN
     ELSE IF negative THEN 0 - ReadDigits(str, u, radix, 0)
     ELSE ReadDigits(str, u, radix, 0)

\* parseInt(level, 10) of the URL level effect
ParseInt(str) == ParseIntRadix(str, 10)

\* parseInt(payload.level) of the agent's setDifficulty
ParseIntNoRadix(str) == ParseIntRadix(str, 0)

(***************************************************************************)
(* Pieces and positions.                                                   *)
(***************************************************************************)
Colors == {"w", "b"}
Other(c) == IF c = "w" THEN "b" ELSE "w"
Empty == [c |-> "-", t |-> "-"]
Pc(c, t) == [c |-> c, t |-> t]

\* what chess.js counts a position by (placement, side, castling, en passant)
PosKey(b, turn, castle, ep) == [board |-> b, turn |-> turn, castle |-> castle, ep |-> ep]

\* INITIAL_FEN of logic.ts
INITIAL_FEN == "rnbqkbnr/pppppppp/8/8/8/8/PPPPPPPP/RNBQKBNR w KQkq - 0 1"

(***************************************************************************)
(* Attacks.                                                                *)
(***************************************************************************)
PathClear(b, s, t) ==
  LET df == File(t) - File(s)
      dr == Rank(t) - Rank(s)
      n == MaxOf(Abs(df), Abs(dr))
      step == Sgn(df) + 8 * Sgn(dr)
  IN \A k \in 1 .. (n - 1) : b[s + k * step] = Empty

\* the piece on s attacks square t
Attacks(b, s, t) ==
  LET p == b[s]
      df == File(t) - File(s)
      dr == Rank(t) - Rank(s)
      adf == Abs(df)
      adr == Abs(dr)
  IN /\ s # t
     /\ CASE p.t = "p" -> adf = 1 /\ dr = (IF p.c = "w" THEN 1 ELSE -1)
          [] p.t = "n" -> (adf = 1 /\ adr = 2) \/ (adf = 2 /\ adr = 1)
          [] p.t = "k" -> adf <= 1 /\ adr <= 1
          [] p.t = "b" -> adf = adr /\ PathClear(b, s, t)
          [] p.t = "r" -> (adf = 0 \/ adr = 0) /\ PathClear(b, s, t)
          [] p.t = "q" -> (adf = adr \/ adf = 0 \/ adr = 0) /\ PathClear(b, s, t)
          [] OTHER -> FALSE

\* some piece of colour c attacks square t
Attacked(b, t, c) == \E s \in Squares : b[s].c = c /\ Attacks(b, s, t)

KingSq(b, c) == CHOOSE s \in Squares : b[s] = Pc(c, "k")

KingAttacked(b, c) == Attacked(b, KingSq(b, c), Other(c))

(***************************************************************************)
(* Move generation (chess.js _moves).  A move is a record                  *)
(*   [from, to, piece, color, captured, promotion, flag]                   *)
(* with flag n (quiet), b (two-square pawn push), c (capture),             *)
(* e (en passant), k / q (castling king side / queen side).                *)
(***************************************************************************)
Mv(from, to, p, cap, promo, flag) ==
  [from |-> from, to |-> to, piece |-> p.t, color |-> p.c,
   captured |-> cap, promotion |-> promo, flag |-> flag]

Promotions == {"q", "r", "b", "n"}
LastRank(c) == IF c = "w" THEN 7 ELSE 0
PawnRank(c) == IF c = "w" THEN 1 ELSE 6
Forward(c) == IF c = "w" THEN 8 ELSE -8

\* a pawn move to t, once for each promotion piece when t is on the last rank
PawnTo(s, t, p, cap, flag) ==
  IF Rank(t) = LastRank(p.c)
    THEN {Mv(s, t, p, cap, pr, flag) : pr \in Promotions}
    ELSE {Mv(s, t, p, cap, "-", flag)}

PawnMoves(g, s) ==
  LET b == g.board
      p == b[s]
      one == s + Forward(p.c)
      two == s + 2 * Forward(p.c)
      diag == {t \in {one - 1, one + 1} : t \in Squares /\ Abs(File(t) - File(s)) = 1}
      push == IF one \in Squares /\ b[one] = Empty
                THEN PawnTo(s, one, p, "-", "n") ELSE {}
      double == IF Rank(s) = PawnRank(p.c) /\ b[one] = Empty /\ b[two] = Empty
                  THEN {Mv(s, two, p, "-", "-", "b")} ELSE {}
      takes == UNION {PawnTo(s, t, p, b[t].t, "c") : t \in {x \in diag : b[x].c = Other(p.c)}}
      passant == {Mv(s, t, p, "p", "-", "e") : t \in {x \in diag : x = g.ep}}
  IN push \cup double \cup takes \cup passant

PieceMoves(g, s) ==
  LET b == g.board
      p == b[s]
  IN {Mv(s, t, p, b[t].t, "-", IF b[t] = Empty THEN "n" ELSE "c") :
        t \in {x \in Squares : b[x].c # p.c /\ Attacks(b, s, x)}}

\* castling: the right is held, the squares between are empty, and the king
\* neither stands on, passes over nor lands on an attacked square
CastleMoves(g, s) ==
  LET b == g.board
      p == b[s]
      them == Other(p.c)
      home == IF p.c = "w" THEN Sq("e", 1) ELSE Sq("e", 8)
      kRight == IF p.c = "w" THEN "K" ELSE "k"
      qRight == IF p.c = "w" THEN "Q" ELSE "q"
      kSide == IF /\ kRight \in g.castle
                  /\ b[s + 1] = Empty /\ b[s + 2] = Empty
                  /\ ~Attacked(b, s, them)
                  /\ ~Attacked(b, s + 1, them)
                  /\ ~Attacked(b, s + 2, them)
                 THEN {Mv(s, s + 2, p, "-", "-", "k")} ELSE {}
      qSide == IF /\ qRight \in g.castle
                  /\ b[s - 1] = Empty /\ b[s - 2] = Empty /\ b[s - 3] = Empty
                  /\ ~Attacked(b, s, them)
                  /\ ~Attacked(b, s - 1, them)
                  /\ ~Attacked(b, s - 2, them)
                 THEN {Mv(s, s - 2, p, "-", "-", "q")} ELSE {}
  IN IF s = home THEN kSide \cup qSide ELSE {}

\* pseudo-legal moves of the piece on s (the king may be left in check)
PseudoMoves(g, s) ==
  LET p == g.board[s]
  IN CASE p.c # g.turn -> {}
       [] p.t = "p" -> PawnMoves(g, s)
       [] p.t = "k" -> PieceMoves(g, s) \cup CastleMoves(g, s)
       [] OTHER -> PieceMoves(g, s)

\* the placement after move m
BoardAfter(b, m) ==
  LET placed == IF m.promotion = "-" THEN Pc(m.color, m.piece) ELSE Pc(m.color, m.promotion)
      rook == Pc(m.color, "r")
  IN CASE m.flag = "e" ->
            [b EXCEPT ![m.to] = placed, ![m.from] = Empty,
                      ![m.to - Forward(m.color)] = Empty]
       [] m.flag = "k" ->
            [b EXCEPT ![m.to] = placed, ![m.from] = Empty,
                      ![m.to + 1] = Empty, ![m.to - 1] = rook]
       [] m.flag = "q" ->
            [b EXCEPT ![m.to] = placed, ![m.from] = Empty,
                      ![m.to - 2] = Empty, ![m.to + 1] = rook]
       [] OTHER -> [b EXCEPT ![m.to] = placed, ![m.from] = Empty]

\* a pseudo-legal move is legal when it leaves the mover's king unattacked
LegalMove(g, m) == ~KingAttacked(BoardAfter(g.board, m), m.color)

\* game.moves({square, verbose: true})
MovesFrom(g, s) == {m \in PseudoMoves(g, s) : LegalMove(g, m)}

\* the legal moves from s to t
MovesFromTo(g, s, t) == {m \in PseudoMoves(g, s) : m.to = t /\ LegalMove(g, m)}

\* game.moves({verbose: true})
AllMoves(g) == UNION {MovesFrom(g, s) : s \in {x \in Squares : g.board[x].c = g.turn}}

\* square colour, for the same-coloured-bishops rule
Shade(s) == (File(s) + Rank(s)) % 2

\* chess.js isInsufficientMaterial on placement b
BareBoard(b) ==
  LET men == {s \in Squares : b[s] # Empty}
      bishops == {s \in men : b[s].t = "b"}
      knights == {s \in men : b[s].t = "n"}
      n == Cardinality(men)
  IN \/ n = 2
     \/ n = 3 /\ Cardinality(bishops \cup knights) = 1
     \/ /\ n = Cardinality(bishops) + 2
        /\ \A x, y \in bishops : Shade(x) = Shade(y)

\* the side to move has a legal move
AnyLegalMove(g) ==
  \E s \in Squares : g.board[s].c = g.turn /\ \E m \in PseudoMoves(g, s) : LegalMove(g, m)

\* A Chess object: the six fields of a FEN, the positions it has seen, and
\* what isCheck(), "no legal move" and isInsufficientMaterial() answer for its
\* position (worked out when first asked for, like every function value).
ChessObj(b, turn, castle, ep, half, full, seen) ==
  LET pos == PosKey(b, turn, castle, ep)
  IN [board |-> b, turn |-> turn, castle |-> castle, ep |-> ep,
      half |-> half, full |-> full, seen |-> seen,
      facts |-> [k \in {"check", "stuck", "bare"} |->
                   CASE k = "check" -> KingAttacked(b, turn)
                     [] k = "stuck" -> ~AnyLegalMove(pos)
                     [] OTHER -> BareBoard(b)]]

\* a pawn of the side to move stands next to the pawn that has just advanced
\* two squares and can legally capture it en passant
EpCapture(g) ==
  /\ g.ep # NoSquare
  /\ \E s \in {g.ep - Forward(g.turn) - 1, g.ep - Forward(g.turn) + 1} \cap Squares :
       /\ Abs(File(s) - File(g.ep)) = 1
       /\ g.board[s] = Pc(g.turn, "p")
       /\ \E m \in PawnMoves(g, s) : m.flag = "e" /\ LegalMove(g, m)

\* the six fields game.fen() writes out: the en passant square only when it
\* can be captured on; the positions seen so far are not among them
Fen(g) ==
  [board |-> g.board, turn |-> g.turn, castle |-> g.castle,
   ep |-> IF EpCapture(g) THEN g.ep ELSE NoSquare,
   half |-> g.half, full |-> g.full]

\* the letter of a piece in a position text: upper case for White
FenLetter(p) ==
  IF p.c = "b" THEN p.t
  ELSE CASE p.t = "p" -> "P" [] p.t = "n" -> "N" [] p.t = "b" -> "B"
         [] p.t = "r" -> "R" [] p.t = "q" -> "Q" [] OTHER -> "K"

\* rank r from file f on, a run of empty squares written as its length
RECURSIVE RowText(_, _, _, _)
RowText(b, r, f, run) ==
  IF f > 7 THEN (IF run > 0 THEN ToString(run) ELSE "")
  ELSE IF b[8 * r + f] = Empty THEN RowText(b, r, f + 1, run + 1)
  ELSE (IF run > 0 THEN ToString(run) ELSE "") \o FenLetter(b[8 * r + f])
         \o RowText(b, r, f + 1, 0)

\* the ranks from r down to the first, '/' between them
RECURSIVE RowsText(_, _)
RowsText(b, r) ==
  IF r = 0 THEN RowText(b, 0, 0, 0)
  ELSE RowText(b, r, 0, 0) \o "/" \o RowsText(b, r - 1)

\* the castling field: the rights left in the order KQkq, '-' for none
CastlingText(c) ==
  IF c = {} THEN "-"
  ELSE (IF "K" \in c THEN "K" ELSE "") \o (IF "Q" \in c THEN "Q" ELSE "")
         \o (IF "k" \in c THEN "k" ELSE "") \o (IF "q" \in c THEN "q" ELSE "")

\* the text game.fen() returns for the six fields: placement from the eighth
\* rank down, side to move, castling rights, en passant square, the two counters
FenText(f) ==
  RowsText(f.board, 7) \o " " \o f.turn \o " " \o CastlingText(f.castle) \o " "
    \o (IF f.ep = NoSquare THEN "-" ELSE FileNames[File(f.ep) + 1] \o ToString(Rank(f.ep) + 1))
    \o " " \o ToString(f.half) \o " " \o ToString(f.full)

\* str.split(/\s+/): the pieces of a text between runs of white space
RECURSIVE SplitBlank(_, _, _, _)
SplitBlank(str, i, cur, out) ==
  IF i > Len(str) THEN Append(out, cur)
  ELSE IF str[i] \notin Blanks THEN SplitBlank(str, i + 1, Append(cur, str[i]), out)
  ELSE IF i > 1 /\ str[i - 1] \in Blanks THEN SplitBlank(str, i + 1, cur, out)
  ELSE SplitBlank(str, i + 1, <<>>, Append(out, cur))

\* str.split('/')
RECURSIVE SplitSlash(_, _, _, _)
SplitSlash(str, i, cur, out) ==
  IF i > Len(str) THEN Append(out, cur)
  ELSE IF str[i] = 47 THEN SplitSlash(str, i + 1, <<>>, Append(out, cur))
  ELSE SplitSlash(str, i + 1, Append(cur, str[i]), out)

\* the code units of the piece letters prnbqk and PRNBQK
PieceCodes == {112, 114, 110, 98, 113, 107, 80, 82, 78, 66, 81, 75}

\* the squares one rank of a placement names, from the a-file on: a digit
\* stands for that many empty squares, a letter for a piece
RECURSIVE RowSquares(_, _)
RowSquares(row, i) ==
  IF i > Len(row) THEN <<>>
  ELSE IF row[i] \in 48 .. 57
    THEN [k \in 1 .. (row[i] - 48) |-> Empty] \o RowSquares(row, i + 1)
  ELSE <<IF row[i] < 96 THEN Pc("w", CharOf(row[i] + 32)) ELSE Pc("b", CharOf(row[i]))>>
         \o RowSquares(row, i + 1)

\* chess.js validateFen on one rank: piece letters and digits only, no two
\* digits in a row, eight squares in all
ValidRow(row) ==
  /\ \A i \in 1 .. Len(row) : row[i] \in PieceCodes \cup (48 .. 57)
  /\ \A i \in 2 .. Len(row) : ~(row[i] \in 48 .. 57 /\ row[i - 1] \in 48 .. 57)
  /\ Len(RowSquares(row, 1)) = 8

\* chess.js validateFen, which new Chess(fen) throws on: six fields, a move
\* number above 0, a half-move count of 0 or more, an en passant field of '-'
\* or a square of the third or sixth rank that fits the side to move, castling
\* letters, side w or b, eight valid ranks, one king a side and no pawn on the
\* first or last rank
ValidFen(text) ==
  LET tokens == SplitBlank(Chars(text), 1, <<>>, <<>>)
      rows == SplitSlash(tokens[1], 1, <<>>, <<>>)
      ep == tokens[4]
  IN /\ Len(tokens) = 6
     /\ ParseInt(tokens[6]) > 0
     /\ ParseInt(tokens[5]) >= 0
     /\ \/ ep = <<45>>
        \/ Len(ep) = 2 /\ ep[1] \in 97 .. 104 /\ ep[2] \in {51, 54}
     /\ \A i \in 1 .. Len(tokens[3]) : tokens[3][i] \in {75, 81, 107, 113, 45}
     /\ tokens[2] \in {<<119>>, <<98>>}
     /\ Len(rows) = 8
     /\ \A r \in 1 .. 8 : ValidRow(rows[r])
     /\ ~(Len(ep) = 2 /\ ep[2] = 51 /\ tokens[2] = <<119>>)
     /\ ~(Len(ep) = 2 /\ ep[2] = 54 /\ tokens[2] = <<98>>)
     /\ \A king \in {75, 107} :
          Cardinality({<<r, i>> \in (1 .. 8) \X (1 .. 8) :
                         i <= Len(rows[r]) /\ rows[r][i] = king}) = 1
     /\ \A r \in {1, 8} : \A i \in 1 .. Len(rows[r]) : rows[r][i] \notin {80, 112}

\* the six fields chess.js load reads from a valid position text
ReadFen(text) ==
  LET tokens == SplitBlank(Chars(text), 1, <<>>, <<>>)
      rows == SplitSlash(tokens[1], 1, <<>>, <<>>)
      ep == tokens[4]
      ranks == [r \in 1 .. 8 |-> RowSquares(rows[r], 1)]
  IN [board |-> [s \in Squares |-> ranks[8 - Rank(s)][File(s) + 1]],
      turn |-> CharOf(tokens[2][1]),
      castle |-> {CharOf(tokens[3][i]) : i \in 1 .. Len(tokens[3])} \ {"-"},
      ep |-> IF ep = <<45>> THEN NoSquare ELSE (ep[1] - 97) + 8 * (ep[2] - 49),
      half |-> ParseInt(tokens[5]),
      full |-> ParseInt(tokens[6])]

\* a variant that starts the move counters afresh
LoadFenFreshCounters(f) ==
  ChessObj(f.board, f.turn, f.castle, f.ep, 0, 1,
           <<PosKey(f.board, f.turn, f.castle, f.ep)>>)

\* new Chess(fen) for the fields of the text: a fresh object that has seen the
\* loaded position only
LoadFen(f) ==
  ChessObj(f.board, f.turn, f.castle, f.ep, f.half, f.full,
           <<PosKey(f.board, f.turn, f.castle, f.ep)>>)

\* new Chess() / createGame()
createGame == LoadFen(ReadFen(INITIAL_FEN))

HasLegalMove(g) == ~g.facts["stuck"]

\* castling rights lost by a move from or to a king or rook home square
RightsLost(m) ==
  (IF m.from = Sq("e", 1) THEN {"K", "Q"} ELSE {}) \cup
  (IF m.from = Sq("e", 8) THEN {"k", "q"} ELSE {}) \cup
  (IF Sq("h", 1) \in {m.from, m.to} THEN {"K"} ELSE {}) \cup
  (IF Sq("a", 1) \in {m.from, m.to} THEN {"Q"} ELSE {}) \cup
  (IF Sq("h", 8) \in {m.from, m.to} THEN {"k"} ELSE {}) \cup
  (IF Sq("a", 8) \in {m.from, m.to} THEN {"q"} ELSE {})

\* chess.js _makeMove: the object after move m, which has seen one position more
MakeMove(g, m) ==
  LET b == BoardAfter(g.board, m)
      turn == Other(g.turn)
      castle == g.castle \ RightsLost(m)
      ep == IF m.flag = "b" THEN m.to - Forward(m.color) ELSE NoSquare
      half == IF m.piece = "p" \/ m.flag \in {"c", "e"} THEN 0 ELSE g.half + 1
      full == IF g.turn = "b" THEN g.full + 1 ELSE g.full
  IN ChessObj(b, turn, castle, ep, half, full,
              Append(g.seen, PosKey(b, turn, castle, ep)))

(***************************************************************************)
(* Terminal conditions (chess.js isCheck, isCheckmate, isDraw, ...).       *)
(***************************************************************************)
isCheck(g) == g.facts["check"]
isCheckmate(g) == isCheck(g) /\ ~HasLegalMove(g)
isStalemate(g) == ~isCheck(g) /\ ~HasLegalMove(g)

isInsufficientMaterial(g) == g.facts["bare"]

\* the current position has occurred three times since the object was created
isThreefoldRepetition(g) ==
  LET key == PosKey(g.board, g.turn, g.castle, g.ep)
  IN Cardinality({i \in 1 .. Len(g.seen) : g.seen[i] = key}) >= 3

isDraw(g) ==
  \/ g.half >= 100
  \/ isStalemate(g)
  \/ isInsufficientMaterial(g)
  \/ isThreefoldRepetition(g)

isGameOver(g) == isCheckmate(g) \/ isStalemate(g) \/ isDraw(g)

(***************************************************************************)
(* Notation.  A SAN string is kept as its parts:                           *)
(*   [castle, piece, file, rank, x, to, promotion, suffix]                 *)
(* e.g. Nbd7+ is piece n, file b, rank none, no capture, to d7, suffix +.  *)
(***************************************************************************)
NoCoord == -1

SanOf(castle, piece, file, rank, x, to, promo, suffix) ==
  [castle |-> castle, piece |-> piece, file |-> file, rank |-> rank,
   x |-> x, to |-> to, promotion |-> promo, suffix |-> suffix]

\* the other legal moves of the same kind of piece to the same square
Rivals(g, m) ==
  UNION {MovesFromTo(g, s, m.to) :
           s \in {x \in Squares : x # m.from /\ g.board[x] = Pc(m.color, m.piece)}}

\* <<file, rank>> of m's origin, as far as the rival moves make it needed
DisambiguatorAmong(rivals, m) ==
  LET sameRank == \E r \in rivals : Rank(r.from) = Rank(m.from)
      sameFile == \E r \in rivals : File(r.from) = File(m.from)
  IN CASE rivals = {} -> <<NoCoord, NoCoord>>
       [] sameRank /\ sameFile -> <<File(m.from), Rank(m.from)>>
       [] sameFile -> <<NoCoord, Rank(m.from)>>
       [] OTHER -> <<File(m.from), NoCoord>>

\* chess.js getDisambiguator
Disambiguator(g, m) == DisambiguatorAmong(Rivals(g, m), m)

\* the notation of m with origin marks d, without a check mark
SanParts(m, d) ==
  CASE m.flag = "k" -> SanOf("O-O", "-", NoCoord, NoCoord, FALSE, NoSquare, "-", "")
    [] m.flag = "q" -> SanOf("O-O-O", "-", NoCoord, NoCoord, FALSE, NoSquare, "-", "")
    [] OTHER -> SanOf("-", m.piece, d[1], d[2], m.flag \in {"c", "e"}, m.to,
                      m.promotion, "")

\* the move's notation without its check mark: a pawn names its file when
\* it captures, another piece is disambiguated
SanBody(g, m) ==
  SanParts(m, IF m.piece = "p"
                THEN <<IF m.flag \in {"c", "e"} THEN File(m.from) ELSE NoCoord, NoCoord>>
                ELSE Disambiguator(g, m))

\* + when the position reached is check, # when it is mate
CheckMark(after) ==
  IF isCheck(after) THEN (IF HasLegalMove(after) THEN "+" ELSE "#") ELSE ""

\* chess.js _moveToSan
San(g, m) == [SanBody(g, m) EXCEPT !.suffix = CheckMark(MakeMove(g, m))]

\* chess.js strippedSan: the check mark is not compared
StrippedSan(san) == [san EXCEPT !.suffix = ""]

\* origins a SAN can come from: the mover's pieces of the kind it names
SanOrigins(g, san) ==
  {s \in Squares :
     g.board[s] = Pc(g.turn, IF san.castle = "-" THEN san.piece ELSE "k")}

\* chess.js _moveFromSan: the legal moves whose notation is the given one
MovesFromSan(g, san) ==
  UNION {{m \in (IF san.castle = "-" THEN MovesFromTo(g, s, san.to) ELSE MovesFrom(g, s)) :
             SanBody(g, m) = StrippedSan(san)} :
           s \in SanOrigins(g, san)}

\* an engine move in compact notation, e2e4 or e7e8q
Uci(from, to, promo) == [from |-> from, to |-> to, promotion |-> promo]

\* what stands for the move in 'bestmove (none)'
NoneMove == Uci(NoSquare, NoSquare, "-")

\* what stands for the move when nothing follows 'bestmove': split(' ')[1] is undefined
MissingMove == Uci(NoSquare, NoSquare, "")

\* a variant that takes a move whichever side is to move
MovesFromUciEitherSide(g, u) ==
  IF u.from \in Squares /\ u.to \in Squares
    THEN {m \in AllMoves(g) \cup AllMoves([g EXCEPT !.turn = IF g.turn = "w" THEN "b" ELSE "w"]) :
            m.from = u.from /\ m.to = u.to
              /\ (u.promotion = "-" \/ u.promotion = m.promotion)}
    ELSE {}

\* chess.js permissive parser: the legal moves with that origin, target and promotion
MovesFromUci(g, u) ==
  IF u.from \in Squares /\ u.to \in Squares
    THEN {m \in MovesFromTo(g, u.from, u.to) :
            u.promotion = "-" \/ u.promotion = m.promotion}
    ELSE {}

\* game.move({from, to, promotion}): the promotion piece only matters for a promotion
MovesFromObject(g, from, to, promo) ==
  IF from \in Squares /\ to \in Squares
    THEN {m \in MovesFromTo(g, from, to) :
            m.promotion = "-" \/ m.promotion = promo}
    ELSE {}

(***************************************************************************)
(* src/src/chess/logic.ts                                                  *)
(***************************************************************************)
NoMove == [from |-> NoSquare]

\* the move gameCopy.move() returns, null (NoMove) when it throws
MoveOrNull(found) == IF found = {} THEN NoMove ELSE CHOOSE m \in found : TRUE

\* validateMove(game, {from, to, promotion}): the move made on a copy loaded
\* from game.fen(), or null when chess.js throws
validateMove(g, from, to, promo) ==
  MoveOrNull(MovesFromObject(LoadFen(Fen(g)), from, to, promo))

ColorName(c) == IF c = "w" THEN "White" ELSE "Black"

\* getStatus(game, playerColor, isTwoPlayer)
getStatus(g, pcol, two) ==
  IF isCheckmate(g)
    THEN (IF g.turn = "w" THEN "Checkmate! Black wins." ELSE "Checkmate! White wins.")
  ELSE IF isDraw(g) THEN "Draw!"
  ELSE IF isCheck(g) THEN "Check!"
  ELSE IF two THEN (IF g.turn = "w" THEN "White's turn" ELSE "Black's turn")
  ELSE IF g.turn = pcol
    THEN (IF pcol = "w" THEN "Your turn (White)" ELSE "Your turn (Black)")
  ELSE "Computer is thinking..."

(***************************************************************************)
(* src/src/App.tsx: state.                                                 *)
(***************************************************************************)
\* the difficulty table: levels[d] is {skill, depth} of difficulty d
levels ==
  << [skill |-> 0, depth |-> 1], [skill |-> 3, depth |-> 3],
     [skill |-> 7, depth |-> 7], [skill |-> 11, depth |-> 11],
     [skill |-> 15, depth |-> 15], [skill |-> 18, depth |-> 18],
     [skill |-> 20, depth |-> 20] >>

\* no setoption posted yet: the app has no worker
NoSkill == -1

\* currentLevel = levels[difficulty - 1] || levels[0]
currentLevel(d) == IF d \in 1 .. Len(levels) THEN levels[d] ELSE levels[1]

\* squares the explored clicks and engine moves are drawn from
PlaySquares ==
  {Sq("e", 1), Sq("f", 2), Sq("f", 3), Sq("g", 2), Sq("g", 4),
   Sq("e", 7), Sq("e", 5), Sq("d", 8), Sq("h", 4)}

\* difficulty values the explored settings changes choose from
LevelChoices == {1, 2}

\* A useState variable holds the value last set; uncommitted tells that React
\* has not rendered it yet, and then gameRef, storage and the effects are
\* those of the render before.
VARIABLES
  game,            \* useState: the Chess object on display
  moveHistory,     \* useState: SAN of every accepted move, in play order
  selectedSquare,  \* useState: the selected square, NoSquare for null
  validMoves,      \* useState: destinations of the selected piece
  status,          \* useState: the status text
  difficulty,      \* useState
  playerColor,     \* useState
  isTwoPlayer,     \* useState
  showEndModal,    \* useState
  gameResult,      \* useState
  gameRef,         \* useRef: the game the engine callback reads
  mounted,         \* hasRestoredRef: the mount effects have run
  level,           \* the ?level= launch parameter as code units, NoLevel when absent
  storage,         \* localStorage[STORAGE_KEY]
  notified,        \* times the game end effect has notified for the position on display
  skillOption,     \* the Skill Level option the app last posted to the worker
  timers,          \* pending 500 ms timers of the AI trigger, oldest first
  searches,        \* position/go requests the worker has received, oldest first
  replies,         \* bestmove lines posted by the worker, not yet handled
  uncommitted,     \* an engine callback has set state that React has not committed yet
  configOps,       \* configuration operations done so far
  lastOp,          \* the handler that ran last and how it ended
  stockfish,       \* Engine.stockfish: the worker, "worker" or "terminated"
  onMessage,       \* Engine.onMessage: the registered callback under its wrappers
  wire,            \* what sendMessage has posted to the worker, in order
  calls,           \* the getBestMove calls made, and what each promise holds
  working,         \* the searches the worker has not answered yet, oldest first
  heard,           \* bestmove lines handed to the registered callback
  lookups,         \* agent getBestMove: the lookups started, each with the line its
                   \* worker posted and its promise
  moving           \* agent movePiece: the calls in their 1000 ms wait, each with
                   \* its squares and the playerColor and isTwoPlayer of its render

appVars == <<game, moveHistory, selectedSquare, validMoves, status, difficulty,
             playerColor, isTwoPlayer, showEndModal, gameResult, gameRef, mounted,
             level, storage, notified, skillOption>>
engineVars == <<timers, searches, replies>>
mainVars == <<appVars, engineVars, uncommitted, configOps, lastOp>>
classVars == <<stockfish, onMessage, wire, calls, working, heard>>
agentVars == <<lookups, moving>>
vars == <<mainVars, classVars, agentVars>>

(***************************************************************************)
(* Persistence (saveGameState, the restore effect).                        *)
(***************************************************************************)
\* a variant that always writes isTwoPlayer as false
SavedRecordSinglePlayer(g, hist, diff, pcol, two) ==
  [kind |-> "json", fen |-> FenText(Fen(g)), moveHistory |-> hist, difficulty |-> diff,
   playerColor |-> pcol, isTwoPlayer |-> FALSE]

\* the record saveGameState writes
SavedRecord(g, hist, diff, pcol, two) ==
  [kind |-> "json", fen |-> FenText(Fen(g)), moveHistory |-> hist, difficulty |-> diff,
   playerColor |-> pcol, isTwoPlayer |-> two]

\* no item under STORAGE_KEY
NoRecord == [kind |-> "none"]
\* an item that JSON.parse rejects
CorruptRecord == [kind |-> "corrupt"]
\* a record whose fen names no king: new Chess(fen) throws
BadFenRecord ==
  [kind |-> "json", fen |-> "8/8/8/8/8/8/8/8 w KQkq - 0 1",
   moveHistory |-> <<>>, difficulty |-> 2, playerColor |-> "b", isTwoPlayer |-> TRUE]

\* the record the app wrote when Black was chosen and the page closed before
\* the computer's first move
FreshBlackRecord ==
  [kind |-> "json", fen |-> INITIAL_FEN, moveHistory |-> <<>>, difficulty |-> 1,
   playerColor |-> "b", isTwoPlayer |-> FALSE]

\* the record the app wrote when Two Players was ticked on a fresh game
FreshTwoPlayerRecord ==
  [kind |-> "json", fen |-> INITIAL_FEN, moveHistory |-> <<>>, difficulty |-> 1,
   playerColor |-> "w", isTwoPlayer |-> TRUE]

\* the record the app wrote when level 2 was chosen and Two Players ticked
LevelTwoRecord ==
  [kind |-> "json", fen |-> INITIAL_FEN, moveHistory |-> <<>>, difficulty |-> 2,
   playerColor |-> "w", isTwoPlayer |-> TRUE]

\* an item that parses to a record without fen, moveHistory and difficulty:
\* {"playerColor":"b","isTwoPlayer":true}
NoFenRecord == [kind |-> "json", playerColor |-> "b", isTwoPlayer |-> TRUE]

\* the parsed record has the key
Has(rec, key) == key \in DOMAIN rec

\* a variant that applies every record that parses
RestorableWhenParsed(rec) == rec.kind = "json"

\* the restore effect reads a record it can apply: the item parses and
\* new Chess(state.fen) does not throw; without a fen key state.fen is
\* undefined and new Chess(undefined) is the default position
Restorable(rec) == rec.kind = "json" /\ (Has(rec, "fen") => ValidFen(rec.fen))

\* no launch parameter: searchParams.get('level') is null
NoLevel == <<>>

\* launch parameters explored at start: absent, valid, out of range, and texts
\* parseInt reads a number from: '2x', ' 3', '3.9', a carriage return before
\* '6' (?level=%0D6) and an em space before '4' (?level=%E2%80%834)
LaunchParams ==
  {NoLevel, Chars("2"), Chars("9"), Chars("07"), Chars("2x"), Chars(" 3"),
   Chars("3.9"), <<13, 54>>, <<8195, 52>>, Chars("x2")}

(***************************************************************************)
(* Replay of a move list from the standard initial position (undoMove).    *)
(***************************************************************************)
Invalid == [turn |-> "-"]

\* newGame.move(...) with the legal moves found for its argument: the object
\* after the move, Invalid when there is none and move() throws
MoveOrThrow(g, found) ==
  IF found = {} THEN Invalid ELSE MakeMove(g, CHOOSE m \in found : TRUE)

\* newGame.move(san); a throw ends the loop
ReplayStep(g, san) ==
  IF g.turn = Invalid.turn THEN Invalid ELSE MoveOrThrow(g, MovesFromSan(g, san))

RECURSIVE ReplayFrom(_, _, _)
\* for (const move of hist) newGame.move(move), from the i-th entry on
ReplayFrom(g, hist, i) ==
  IF i > Len(hist) THEN g ELSE ReplayFrom(ReplayStep(g, hist[i]), hist, i + 1)

\* const newGame = new Chess(); for (const move of hist) newGame.move(move)
Replay(hist) == ReplayFrom(createGame, hist, 1)

(***************************************************************************)
(* Render and effects.  A handler's state updates are rendered together,   *)
(* then the effects whose dependencies changed run in source order: save,  *)
(* gameRef sync, game end, skill option, AI trigger.                       *)
(***************************************************************************)
Pending == Len(timers) + Len(searches) + Len(replies)

\* a variant that classifies a mate by the side to move alone
ResultByMover(g, pcol) ==
  IF isCheckmate(g) THEN (IF g.turn = "w" THEN "loss" ELSE "win") ELSE "draw"

\* the game end effect's classification
Result(g, pcol) ==
  IF isCheckmate(g) THEN (IF g.turn = pcol THEN "loss" ELSE "win") ELSE "draw"

\* the AI trigger effect's first branch; over: game.isGameOver()
\* a variant that searches for Black only
AiTurnAsBlack(turn, pcol, two, over) == ~two /\ turn = "b" /\ pcol = "w" /\ ~over

AiTurn(turn, pcol, two, over) == ~two /\ turn # pcol /\ ~over

\* a variant whose effect sets no status in two-player mode
EffectStatusSinglePlayerOnly(turn, pcol, two, over, st) ==
  IF AiTurn(turn, pcol, two, over) THEN "Computer is thinking..."
  ELSE IF ~two /\ ~over
    THEN (IF pcol = "w" THEN "Your turn (White)" ELSE "Your turn (Black)")
  ELSE st

\* the status the AI trigger effect sets, st when it sets none
EffectStatus(turn, pcol, two, over, st) ==
  IF AiTurn(turn, pcol, two, over) THEN "Computer is thinking..."
  ELSE IF two /\ ~over
    THEN (IF turn = "w" THEN "White's turn" ELSE "Black's turn")
  ELSE IF ~two /\ ~over
    THEN (IF pcol = "w" THEN "Your turn (White)" ELSE "Your turn (Black)")
  ELSE st

\* the search the AI trigger effect schedules.  Of the messages the app posts
\* the app's actions keep what the worker acts on: the searches (position and
\* go) and the Skill Level option (skillOption); the messages themselves,
\* 'isready' and 'ucinewgame' among them, are those of AppCommands on the
\* wire of the Engine class.
Request(g, diff) == [fen |-> Fen(g), depth |-> currentLevel(diff).depth]

\* The effects of one commit.  gameChanged: setGame was called with a new
\* object; st and modal: the status and modal flag the handler left.
Effects(g, hist, diff, pcol, two, st, modal, gameChanged) ==
  LET over == isGameOver(g)
      endDeps == gameChanged \/ two # isTwoPlayer \/ pcol # playerColor
      aiDeps == endDeps \/ currentLevel(diff).depth # currentLevel(difficulty).depth
      ended == endDeps /\ over /\ ~two
      think == aiDeps /\ AiTurn(g.turn, pcol, two, over)
  IN /\ think => Pending < MaxPending
     /\ storage' = SavedRecord(g, hist, diff, pcol, two)
     /\ gameRef' = g
     /\ skillOption' = currentLevel(diff).skill
     /\ gameResult' = IF ended THEN Result(g, pcol) ELSE gameResult
     /\ showEndModal' = (ended \/ modal)
     /\ notified' = IF gameChanged THEN (IF ended THEN 1 ELSE 0)
                    ELSE IF ended /\ notified < MaxNotified THEN notified + 1
                    ELSE notified
     /\ status' = IF aiDeps THEN EffectStatus(g.turn, pcol, two, over, st) ELSE st
     /\ timers' = IF think THEN Append(timers, Request(g, diff)) ELSE timers

\* a handler's updates, rendered and committed
Render(g, hist, sel, vm, diff, pcol, two, st, modal, gameChanged) ==
  /\ game' = g
  /\ moveHistory' = hist
  /\ selectedSquare' = sel
  /\ validMoves' = vm
  /\ difficulty' = diff
  /\ playerColor' = pcol
  /\ isTwoPlayer' = two
  /\ Effects(g, hist, diff, pcol, two, st, modal, gameChanged)

(***************************************************************************)
(* src/src/chess/engine.ts: the Engine class, on its own.                  *)
(***************************************************************************)
\* most getBestMove calls on one Engine
MaxCalls == 3
\* longest list of posted messages explored
MaxWire == 8

\* a message 'cmd arg' posted to the worker
Msg(cmd, arg) == [cmd |-> cmd, arg |-> arg]

\* positions a caller asks about, and the depths and skill levels it names
EngineFens == {"fenA", "fenB"}
EngineDepths == {10}
EngineSkills == {0}

\* what may follow "bestmove " in a worker line: e2e4, e7e8q, (none), nothing
BestMoves ==
  {Uci(Sq("e", 2), Sq("e", 4), "-"), Uci(Sq("e", 7), Sq("e", 8), "q"), NoneMove,
   MissingMove}

\* this.onMessage: the callback last registered, under the wrappers of the
\* getBestMove calls named in wraps (innermost first)
Handler(base, wraps) == [base |-> base, wraps |-> wraps]

\* a promise not resolved yet
PendingPromise == [state |-> "pending", from |-> NoSquare, to |-> NoSquare, line |-> 0]

\* what the listener resolves the promise with for the n-th bestmove line:
\* {from: move.substring(0, 2), to: move.substring(2, 4)}, null for (none)
\* and for a line with no move token
Resolution(move, n) ==
  IF move = NoneMove \/ move = MissingMove
    THEN [state |-> "null", from |-> NoSquare, to |-> NoSquare, line |-> n]
    ELSE [state |-> "move", from |-> move.from, to |-> move.to, line |-> n]

\* sendMessage(message), for a list of messages: posted when this.stockfish is set
sendMessage(messages) == wire' = wire \o messages

\* the searches the worker takes up from the messages posted: one for each go,
\* of the position last named and numbered by the go's place among the messages
Taken(fen, at) == IF stockfish = "worker" THEN <<[fen |-> fen, go |-> at]>> ELSE <<>>

\* the state the constructor leaves: the worker created, 'uci' sent
Constructed ==
  /\ stockfish = "worker"
  /\ onMessage = Handler("default", <<>>)
  /\ wire = <<Msg("uci", "")>>
  /\ calls = <<>>
  /\ working = <<>>
  /\ heard = 0

\* the messages the app posts with sendMessage itself: the skill option on
\* mount and on a change of difficulty (App.tsx 161-165), 'isready' ahead of
\* a search (172), 'ucinewgame' on a reset (233)
AppCommands ==
  {Msg("isready", ""), Msg("ucinewgame", "")}
    \cup {Msg("setoption", ToString(skill)) : skill \in EngineSkills}

\* sendMessage(message), called by the owner of the Engine
Engine_sendMessage(message) ==
  /\ Len(wire) + 1 <= MaxWire
  /\ sendMessage(<<message>>)
  /\ UNCHANGED <<mainVars, agentVars, stockfish, onMessage, calls, working, heard>>

\* onEngineMessage(callback)
Engine_onEngineMessage(callback) ==
  /\ onMessage # Handler(callback, <<>>)
  /\ onMessage' = Handler(callback, <<>>)
  /\ UNCHANGED <<mainVars, agentVars, stockfish, wire, calls, working, heard>>

\* a variant that sends 'go' before 'position'
Engine_evaluatePositionGoFirst(fen, depth) ==
  /\ Len(wire) + 2 <= MaxWire
  /\ sendMessage(<<Msg("go", ToString(depth)), Msg("position", fen)>>)
  /\ working' = working \o Taken(fen, Len(wire) + 2)
  /\ UNCHANGED <<mainVars, agentVars, stockfish, onMessage, calls, heard>>

\* evaluatePosition(fen, depth)
Engine_evaluatePosition(fen, depth) ==
  /\ Len(wire) + 2 <= MaxWire
  /\ sendMessage(<<Msg("position", fen), Msg("go", ToString(depth))>>)
  /\ working' = working \o Taken(fen, Len(wire) + 2)
  /\ UNCHANGED <<mainVars, agentVars, stockfish, onMessage, calls, heard>>

\* getBestMove(fen, skillLevel, depth): the three messages, then the wrapper
\* that keeps the handler found (originalOnMessage) and replaces it
Engine_getBestMove(fen, skillLevel, depth) ==
  /\ Len(calls) < MaxCalls
  /\ Len(wire) + 3 <= MaxWire
  /\ sendMessage(<<Msg("setoption", ToString(skillLevel)), Msg("position", fen),
                   Msg("go", ToString(depth))>>)
  /\ working' = working \o Taken(fen, Len(wire) + 3)
  /\ calls' = Append(calls, [fen |-> fen, go |-> Len(wire) + 3,
                             originalOnMessage |-> onMessage,
                             waiting |-> {i \in 1 .. Len(calls) :
                                            calls[i].promise = PendingPromise},
                             promise |-> PendingPromise])
  /\ onMessage' = Handler(onMessage.base, Append(onMessage.wraps, Len(calls) + 1))
  /\ UNCHANGED <<mainVars, agentVars, stockfish, heard>>

\* stop()
Engine_stop ==
  /\ Len(wire) + 1 <= MaxWire
  /\ sendMessage(<<Msg("stop", "")>>)
  /\ UNCHANGED <<mainVars, agentVars, stockfish, onMessage, calls, working, heard>>

\* quit(): 'quit' is sent and the worker terminated, also when it was
\* terminated before; no promise is touched
Engine_quit ==
  /\ Len(wire) + 1 <= MaxWire
  /\ sendMessage(<<Msg("quit", "")>>)
  /\ stockfish' = "terminated"
  /\ working' = <<>>
  /\ UNCHANGED <<mainVars, agentVars, onMessage, calls, heard>>

\* The worker posts 'bestmove <move>' for its oldest search and
\* this.stockfish.onmessage hands it to this.onMessage.  Each wrapper runs the
\* handler it kept, then its listener (which resolves its promise; a promise
\* resolves once), then puts back the handler it kept: the outermost wrapper
\* assigns last.
WorkerBestMove ==
  /\ stockfish = "worker"
  /\ working # <<>>
  /\ \E move \in BestMoves :
       calls' = [i \in 1 .. Len(calls) |->
                   IF i \in {onMessage.wraps[k] : k \in 1 .. Len(onMessage.wraps)}
                      /\ calls[i].promise = PendingPromise
                     THEN [calls[i] EXCEPT !.promise = Resolution(move, Head(working).go)]
                     ELSE calls[i]]
  /\ onMessage' = IF onMessage.wraps = <<>> THEN onMessage
                  ELSE calls[onMessage.wraps[Len(onMessage.wraps)]].originalOnMessage
  /\ heard' = IF onMessage.base = "default" THEN heard ELSE heard + 1
  /\ working' = Tail(working)
  /\ UNCHANGED <<mainVars, agentVars, stockfish, wire>>

NextEngine ==
  \/ Engine_onEngineMessage("callback")
  \/ \E message \in AppCommands : Engine_sendMessage(message)
  \/ \E fen \in EngineFens, depth \in EngineDepths : Engine_evaluatePosition(fen, depth)
  \/ \E fen \in EngineFens, skill \in EngineSkills, depth \in EngineDepths :
       Engine_getBestMove(fen, skill, depth)
  \/ Engine_stop
  \/ Engine_quit
  \/ WorkerBestMove

(***************************************************************************)
(* Start.                                                                  *)
(***************************************************************************)
Init ==
  /\ game = createGame
  /\ moveHistory = <<>>
  /\ selectedSquare = NoSquare
  /\ validMoves = {}
  /\ status = "Your turn (White)"
  /\ difficulty = 1
  /\ playerColor = "w"
  /\ isTwoPlayer = FALSE
  /\ showEndModal = FALSE
  /\ gameResult = "win"
  /\ gameRef = createGame
  /\ mounted = FALSE
  /\ level = NoLevel
  /\ storage \in {NoRecord, FreshBlackRecord, FreshTwoPlayerRecord}
  /\ notified = 0
  /\ skillOption = NoSkill
  /\ lookups = <<>>
  /\ moving = <<>>
  /\ timers = <<>>
  /\ searches = <<>>
  /\ replies = <<>>
  /\ uncommitted = FALSE
  /\ configOps = 0
  /\ lastOp = "init"
  /\ Constructed

\* The mount: the effects of the first render, in source order.  The URL
\* level effect and the restore effect set state (setDifficulty, setGame,
\* setMoveHistory, setPlayerColor, setIsTwoPlayer), each field of the record
\* with its fallback (state.moveHistory || [], state.playerColor || 'w',
\* state.isTwoPlayer || false; the difficulty only when the URL names no
\* level and state.difficulty is truthy).  The effects after them are those
\* of the first render: the save writes the record of the default state over
\* the stored item, gameRef is the default game, the skill option posted is
\* that of difficulty 1.  What was set is rendered by Commit; nothing is left
\* to render when the effects set nothing or only the values the state has.
Startup ==
  LET levelNum == ParseInt(level)
      fromUrl == level # NoLevel /\ levelNum >= 1 /\ levelNum <= 7
      restored == Restorable(storage)
      g == IF ~restored THEN game
           ELSE IF Has(storage, "fen") THEN LoadFen(ReadFen(storage.fen)) ELSE createGame
      hist == IF ~restored THEN moveHistory
              ELSE IF Has(storage, "moveHistory") THEN storage.moveHistory ELSE <<>>
      pcol == IF ~restored THEN playerColor
              ELSE IF Has(storage, "playerColor") THEN storage.playerColor ELSE "w"
      two == IF ~restored THEN isTwoPlayer
             ELSE IF Has(storage, "isTwoPlayer") THEN storage.isTwoPlayer ELSE FALSE
      diff == IF fromUrl THEN levelNum
              ELSE IF /\ restored /\ level = NoLevel
                      /\ Has(storage, "difficulty") /\ storage.difficulty # 0
                THEN storage.difficulty
              ELSE difficulty
  IN /\ lastOp' = (IF restored THEN "startup"
                   ELSE IF storage.kind = "none" THEN "startupNoRecord"
                   ELSE IF storage.kind = "corrupt" THEN "startupCorrupt"
                   ELSE "startupBadFen")
     /\ ~mounted
     /\ mounted' = TRUE
     /\ game' = g
     /\ moveHistory' = hist
     /\ playerColor' = pcol
     /\ isTwoPlayer' = two
     /\ difficulty' = diff
     /\ uncommitted' = (restored \/ diff # difficulty)
     /\ Effects(game, moveHistory, difficulty, playerColor, isTwoPlayer, status,
                showEndModal, TRUE)
     /\ UNCHANGED <<selectedSquare, validMoves, level, searches, replies, configOps>>
     /\ UNCHANGED <<classVars, agentVars>>

\* The page is closed and loaded again, at any time after the mount effects:
\* the component state starts over, what was set and not rendered is lost,
\* the worker, its timers and the waits of the agent's calls are gone (the
\* movePiece in progress and every lookup with its own worker and promise),
\* localStorage and the URL stay; the engine object is the one the new page
\* constructs.
Reload ==
  /\ lastOp' = "reload"
  /\ mounted
  /\ configOps < MaxConfigOps
  /\ configOps' = configOps + 1
  /\ game' = createGame
  /\ moveHistory' = <<>>
  /\ selectedSquare' = NoSquare
  /\ validMoves' = {}
  /\ status' = "Your turn (White)"
  /\ difficulty' = 1
  /\ playerColor' = "w"
  /\ isTwoPlayer' = FALSE
  /\ showEndModal' = FALSE
  /\ gameResult' = "win"
  /\ gameRef' = createGame
  /\ mounted' = FALSE
  /\ notified' = 0
  /\ skillOption' = NoSkill
  /\ timers' = <<>>
  /\ searches' = <<>>
  /\ replies' = <<>>
  /\ uncommitted' = FALSE
  /\ UNCHANGED <<level, storage>>
  /\ moving' = <<>>
  /\ lookups' = <<>>
  /\ UNCHANGED classVars

(***************************************************************************)
(* onSquareClick.                                                          *)
(***************************************************************************)
\* a variant that lets any piece be picked up
EligibleAnyPiece(g, sq, pcol, two) == g.board[sq] # Empty

\* the piece on sq is one the human may pick up now
Eligible(g, sq, pcol, two) ==
  g.board[sq] # Empty /\ (IF two THEN g.board[sq].c = g.turn ELSE g.board[sq].c = pcol)

Destinations(g, sq) == {m.to : m \in MovesFrom(g, sq)}

\* a variant that returns at once only when the game is over
ClickIgnoredWhenOver == isGameOver(game)

\* the handler returns at once
ClickIgnored == isGameOver(game) \/ (~isTwoPlayer /\ game.turn # playerColor)

\* the selection branches: select the clicked piece when it is the human's,
\* else leave the selection at rest with destinations restMoves
Select(square, pick, rest, restMoves) ==
  /\ selectedSquare' = (IF pick THEN square ELSE rest)
  /\ validMoves' = (IF pick THEN Destinations(game, square) ELSE restMoves)
  /\ UNCHANGED <<game, moveHistory, status, difficulty, playerColor, isTwoPlayer,
                 showEndModal, gameResult, gameRef, mounted, level, storage, notified,
                 skillOption,
                 engineVars>>

\* the explored history has room for one more move
HistoryRoom ==
  \/ Len(moveHistory) < MaxHistory
  \/ /\ Len(moveHistory) < MaxShuffle
     /\ \A i \in 1 .. Len(moveHistory) : moveHistory[i].piece = "n"

\* the move branch: setGame(gameCopy), setMoveHistory(prev => [...prev, move.san]),
\* setStatus(getStatus(gameCopy, ...)), setSelectedSquare(null), setValidMoves([])
AcceptMove(gameCopy, san) ==
  /\ HistoryRoom
  /\ Render(gameCopy, Append(moveHistory, san), NoSquare, {},
            difficulty, playerColor, isTwoPlayer,
            getStatus(gameCopy, playerColor, isTwoPlayer), showEndModal, TRUE)
  /\ UNCHANGED <<mounted, level, searches, replies>>

\* onSquareClick once validateMove has answered move and the clicked piece
\* is (pick) or is not the human's to pick up
ClickResult(square, move, pick) ==
  /\ lastOp' = (IF ClickIgnored THEN "clickIgnored"
                ELSE IF selectedSquare = NoSquare
                  THEN (IF pick THEN "clickSelect" ELSE "clickMiss")
                ELSE IF move # NoMove THEN "clickMove"
                ELSE IF pick THEN "clickReselect" ELSE "clickClear")
  /\ IF ClickIgnored
       THEN UNCHANGED <<appVars, engineVars>>
     ELSE IF selectedSquare = NoSquare
       THEN Select(square, pick, selectedSquare, validMoves)
     ELSE IF move # NoMove
       THEN AcceptMove(MakeMove(LoadFen(Fen(game)), move), San(LoadFen(Fen(game)), move))
     ELSE Select(square, pick, NoSquare, {})

onSquareClick(square) ==
  /\ mounted /\ ~uncommitted
  /\ ClickResult(square, validateMove(game, selectedSquare, square, "q"),
                 Eligible(game, square, playerColor, isTwoPlayer))
  /\ UNCHANGED <<uncommitted, configOps>>
  /\ UNCHANGED <<classVars, agentVars>>

Click == \E square \in PlaySquares : onSquareClick(square)

(***************************************************************************)
(* Undo, reset and the settings panel.                                     *)
(***************************************************************************)
\* a variant that takes back one move in either mode
undoCountOne(two) == 1

\* const undoCount = isTwoPlayer ? 1 : 2
undoCount(two) == IF two THEN 1 ELSE 2

\* undoMove after the replay loop: newGame is Invalid when a move() threw,
\* which ends the handler before any setter
UndoTo(newHistory, newGame) ==
  IF newGame.turn = Invalid.turn
    THEN lastOp' = "undoThrow" /\ UNCHANGED <<appVars, engineVars>>
    ELSE /\ lastOp' = "undo"
         /\ Render(newGame, newHistory, NoSquare, {}, difficulty, playerColor,
                   isTwoPlayer, getStatus(newGame, playerColor, isTwoPlayer),
                   showEndModal, TRUE)
         /\ UNCHANGED <<mounted, level, searches, replies>>

\* what moveHistory.slice(0, -undoCount) leaves
UndoHistory(hist, two) == SubSeq(hist, 1, Len(hist) - undoCount(two))

\* undoMove
undoMove ==
  IF Len(moveHistory) < undoCount(isTwoPlayer)
    THEN lastOp' = "undoShort" /\ UNCHANGED <<appVars, engineVars>>
    ELSE UndoTo(UndoHistory(moveHistory, isTwoPlayer),
                Replay(UndoHistory(moveHistory, isTwoPlayer)))

\* a variant that disables the button only for a short history
UndoDisabledWhenShort == Len(moveHistory) < (IF isTwoPlayer THEN 1 ELSE 2)

\* the Undo button's disabled attribute
UndoDisabled ==
  \/ Len(moveHistory) < (IF isTwoPlayer THEN 1 ELSE 2)
  \/ (~isTwoPlayer /\ game.turn # playerColor)

\* a press of the Undo button: a disabled button calls nothing
UndoButton ==
  /\ mounted /\ ~uncommitted
  /\ IF UndoDisabled
       THEN lastOp' = "undoDisabled" /\ UNCHANGED <<appVars, engineVars>>
       ELSE undoMove
  /\ UNCHANGED <<uncommitted, configOps>>
  /\ UNCHANGED <<classVars, agentVars>>

\* resetGame (New Game, Try Again, the agent's newGame)
resetGame ==
  LET newGame == createGame
  IN /\ lastOp' = "reset"
     /\ mounted /\ ~uncommitted
     /\ configOps < MaxConfigOps
     /\ configOps' = configOps + 1
     /\ Render(newGame, <<>>, NoSquare, {}, difficulty, playerColor, isTwoPlayer,
               getStatus(newGame, playerColor, isTwoPlayer), FALSE, TRUE)
     /\ UNCHANGED <<mounted, level, searches, replies, uncommitted>>
     /\ UNCHANGED <<classVars, agentVars>>

\* the Play-as select, shown in single-player mode
ChangeColor(newColor) ==
  LET newGame == createGame
  IN /\ lastOp' = "color"
     /\ mounted /\ ~uncommitted
     /\ ~isTwoPlayer /\ newColor # playerColor
     /\ configOps < MaxConfigOps
     /\ configOps' = configOps + 1
     /\ Render(newGame, <<>>, NoSquare, {}, difficulty, newColor, isTwoPlayer,
               getStatus(newGame, newColor, isTwoPlayer), showEndModal, TRUE)
     /\ UNCHANGED <<mounted, level, searches, replies, uncommitted>>
     /\ UNCHANGED <<classVars, agentVars>>

\* the Two Players checkbox's onChange: setIsTwoPlayer(checked),
\* setStatus(getStatus(game, playerColor, checked))
TwoPlayerChanged ==
  LET checked == ~isTwoPlayer
  IN /\ lastOp' = "toggle"
     /\ mounted /\ ~uncommitted
     /\ Render(game, moveHistory, selectedSquare, validMoves, difficulty, playerColor,
               checked, getStatus(game, playerColor, checked), showEndModal, FALSE)
     /\ UNCHANGED <<mounted, level, searches, replies, uncommitted>>
     /\ UNCHANGED <<classVars, agentVars>>

\* the Two Players checkbox, as one of the configuration operations of a run
ToggleTwoPlayer ==
  /\ configOps < MaxConfigOps
  /\ configOps' = configOps + 1
  /\ TwoPlayerChanged

\* the Two Players checkbox on a finished game, as often as one likes
ToggleOnFinished ==
  /\ isGameOver(game)
  /\ UNCHANGED configOps
  /\ TwoPlayerChanged

\* the Difficulty select, shown in single-player mode
ChangeDifficulty(newDiff) ==
  /\ lastOp' = "difficulty"
  /\ mounted /\ ~uncommitted
  /\ ~isTwoPlayer /\ newDiff # difficulty
  /\ configOps < MaxConfigOps
  /\ configOps' = configOps + 1
  /\ level' = Chars(ToString(newDiff))
  /\ Render(game, moveHistory, selectedSquare, validMoves, newDiff, playerColor,
            isTwoPlayer, status, showEndModal, FALSE)
  /\ UNCHANGED <<mounted, searches, replies, uncommitted>>
  /\ UNCHANGED <<classVars, agentVars>>

(***************************************************************************)
(* The search worker and the engine callback.                              *)
(***************************************************************************)
\* the 500 ms timer of the AI trigger effect fires: position fen, go depth
TimerFire ==
  /\ lastOp' = "timer"
  /\ timers # <<>>
  /\ searches' = Append(searches, Head(timers))
  /\ timers' = Tail(timers)
  /\ UNCHANGED <<appVars, replies, uncommitted, configOps>>
  /\ UNCHANGED <<classVars, agentVars>>

\* the moves of inPlay when there are any, else those of all
Preferring(inPlay, all) == IF inPlay # {} THEN inPlay ELSE all

\* (none) when g has no legal move; else the legal moves of g between explored
\* squares, in UCI, and when no legal move lies between explored squares, every
\* legal move of g: the worker always answers
AnswersIn(g) ==
  IF ~HasLegalMove(g) THEN {NoneMove}
  ELSE Preferring(
         UNION {{Uci(m.from, m.to, m.promotion) :
                   m \in {x \in MovesFrom(g, s) : x.to \in PlaySquares}} :
                s \in {x \in PlaySquares : g.board[x].c = g.turn}},
         {Uci(m.from, m.to, m.promotion) : m \in AllMoves(g)})

\* the moves the worker may answer a search of position f with
EngineMoves(f) == AnswersIn(LoadFen(f))

\* the worker ends its oldest search and posts "bestmove <move>"
EngineAnswer ==
  /\ lastOp' = "answer"
  /\ searches # <<>>
  /\ \E u \in EngineMoves(Head(searches).fen) :
       replies' = Append(replies, [move |-> u, for |-> Head(searches).fen])
  /\ searches' = Tail(searches)
  /\ UNCHANGED <<appVars, timers, uncommitted, configOps>>
  /\ UNCHANGED <<classVars, agentVars>>

\* setGame(gameCopy), setMoveHistory(prev => [...prev, result.san]) and
\* setStatus(getStatus(gameCopy, playerColor, isTwoPlayer)) in the callback the
\* mount render created: its playerColor is 'w' and its isTwoPlayer false.
\* The updates are rendered later (Commit).
EngineMoved(gameCopy, san) ==
  /\ HistoryRoom
  /\ game' = gameCopy
  /\ moveHistory' = Append(moveHistory, san)
  /\ status' = getStatus(gameCopy, "w", FALSE)
  /\ uncommitted' = TRUE
  /\ UNCHANGED <<selectedSquare, validMoves, difficulty, playerColor, isTwoPlayer,
                 showEndModal, gameResult, gameRef, mounted, level, storage, notified,
                 skillOption>>

\* the callback once gameCopy.move(move) has found its legal moves: none for
\* '(none)' or a move that throws, and then nothing is set
EngineResult(gameCopy, found) ==
  /\ lastOp' = (IF found = {} THEN "engineDrop" ELSE "engineMove")
  /\ IF found = {}
       THEN UNCHANGED <<appVars, uncommitted>>
       ELSE EngineMoved(MakeMove(gameCopy, CHOOSE m \in found : TRUE),
                        San(gameCopy, CHOOSE m \in found : TRUE))

\* The callback given to onEngineMessage, for the oldest posted bestmove line.
\* It reads the position from gameRef.
onEngineMessage ==
  /\ mounted
  /\ replies # <<>>
  /\ replies' = Tail(replies)
  /\ EngineResult(LoadFen(Fen(gameRef)),
                  MovesFromUci(LoadFen(Fen(gameRef)), Head(replies).move))
  /\ UNCHANGED <<timers, searches, configOps>>
  /\ UNCHANGED <<classVars, agentVars>>

\* React renders what a callback or the mount effects have set and runs the
\* effects
Commit ==
  /\ lastOp' = "commit"
  /\ uncommitted
  /\ uncommitted' = FALSE
  /\ Render(game, moveHistory, selectedSquare, validMoves, difficulty, playerColor,
            isTwoPlayer, status, showEndModal, TRUE)
  /\ UNCHANGED <<mounted, level, searches, replies, configOps>>
  /\ UNCHANGED <<classVars, agentVars>>

(***************************************************************************)
(* The specification.                                                      *)
(***************************************************************************)
Next ==
  \/ Startup
  \/ Reload
  \/ Click
  \/ UndoButton
  \/ resetGame
  \/ \E c \in Colors : ChangeColor(c)
  \/ ToggleTwoPlayer
  \/ \E d \in LevelChoices : ChangeDifficulty(d)
  \/ TimerFire
  \/ EngineAnswer
  \/ onEngineMessage
  \/ Commit

Spec == Init /\ [][Next]_vars

\* The app with what runs by itself: a timer that is set fires, the worker
\* answers a search it was given (EngineAnswer takes it off searches), a
\* posted line reaches the callback while the explored history has room
\* (onEngineMessage takes it off replies), React commits the callback's
\* updates.  The user is under no obligation.
SpecLive ==
  /\ Spec
  /\ WF_vars(TimerFire)
  /\ WF_searches(searches # <<>> /\ lastOp' = "answer" /\ searches' = Tail(searches))
  /\ WF_replies(/\ mounted /\ replies # <<>> /\ HistoryRoom
                /\ lastOp' \in {"engineMove", "engineDrop"}
                /\ replies' = Tail(replies))
  /\ WF_vars(Commit)

\* the Engine class driven by a caller of its methods; the app stays as started
InitEngine == Init /\ storage = NoRecord
SpecEngine == InitEngine /\ [][NextEngine]_vars

\* a live worker answers every search it was given: it posts a bestmove line
\* for the oldest one as long as one is left; the callers are not obliged to call
SpecEngineLive == SpecEngine /\ WF_vars(WorkerBestMove)

(***************************************************************************)
(* The engine callback under any bestmove line: the worker is taken to     *)
(* post whatever it likes, whenever it likes.                              *)
(***************************************************************************)
\* move tokens of the lines explored: moves of either side, one that is never
\* legal, '(none)', and no token at all
LineMoves ==
  {Uci(Sq("f", 2), Sq("f", 3), "-"), Uci(Sq("g", 2), Sq("g", 4), "-"),
   Uci(Sq("e", 7), Sq("e", 5), "-"), Uci(Sq("d", 8), Sq("h", 4), "-"),
   Uci(Sq("e", 1), Sq("e", 7), "-"), NoneMove, MissingMove}

\* the worker posts 'bestmove <token>'
WorkerLine ==
  /\ lastOp' = "line"
  /\ mounted
  /\ Len(replies) < MaxLines
  /\ \E u \in LineMoves : replies' = Append(replies, [move |-> u, for |-> Fen(game)])
  /\ UNCHANGED <<appVars, timers, searches, uncommitted, configOps>>
  /\ UNCHANGED <<classVars, agentVars>>

NextLines ==
  \/ Startup
  \/ Click
  \/ WorkerLine
  \/ onEngineMessage
  \/ Commit

SpecLines == Init /\ [][NextLines]_vars

(***************************************************************************)
(* The agent's getBestMove endpoint: a lookup with a worker of its own.    *)
(***************************************************************************)
\* no bestmove line has been posted yet
NoLine == Uci(NoSquare, NoSquare, "?")

\* the promise the handler returns, before resolve is called
PendingLookup == [success |-> "pending", bestMove |-> NoLine]

\* what worker.onmessage resolves the promise with for 'bestmove <token>':
\* {success: true, bestMove, from, to}, or {success: false, message: 'No move found'}
LookupResult(u) ==
  IF u # MissingMove /\ u # NoneMove
    THEN [success |-> "true", bestMove |-> u]
    ELSE [success |-> "false", bestMove |-> NoLine]

\* the handler: fen = gameRef.current.fen(), a new Worker with its onmessage,
\* 'uci', 'position fen', 'go depth 10' posted, the promise returned
AgentGetBestMove ==
  /\ lastOp' = "lookup"
  /\ mounted
  /\ Len(lookups) < MaxLookups
  /\ lookups' = Append(lookups, [fen |-> Fen(gameRef), line |-> NoLine,
                                 promise |-> PendingLookup])
  /\ UNCHANGED <<appVars, engineVars, uncommitted, configOps, moving>>
  /\ UNCHANGED classVars

\* the worker of lookup i ends its search and posts its bestmove line
LookupPost(i) ==
  /\ lastOp' = "lookupLine"
  /\ lookups[i].line = NoLine
  /\ \E u \in EngineMoves(lookups[i].fen) :
       lookups' = [lookups EXCEPT ![i].line = u]
  /\ UNCHANGED <<appVars, engineVars, uncommitted, configOps, moving>>
  /\ UNCHANGED classVars

\* worker.onmessage of lookup i for the posted bestmove line: the worker is
\* terminated and the promise resolved
LookupOnMessage(i) ==
  /\ lastOp' = "lookupDone"
  /\ lookups[i].line # NoLine
  /\ lookups[i].promise = PendingLookup
  /\ lookups' = [lookups EXCEPT ![i].promise = LookupResult(lookups[i].line)]
  /\ UNCHANGED <<appVars, engineVars, uncommitted, configOps, moving>>
  /\ UNCHANGED classVars

NextLookup ==
  \/ Startup
  \/ Commit
  \/ Click
  \/ AgentGetBestMove
  \/ \E i \in 1 .. Len(lookups) : LookupPost(i)
  \/ \E i \in 1 .. Len(lookups) : LookupOnMessage(i)

\* The event loop runs every handler whose message is posted; whether a
\* worker ever posts a line is up to the worker.
SpecLookup ==
  /\ Init
  /\ [][NextLookup]_vars
  /\ \A i \in 1 .. MaxLookups : WF_vars(i <= Len(lookups) /\ LookupOnMessage(i))

(***************************************************************************)
(* The agent's movePiece endpoint: the piece on `from` is selected, and     *)
(* after a wait of 1000 ms the move is validated on gameRef.current and    *)
(* made.  The endpoint has no turn gate.                                   *)
(***************************************************************************)
\* payload.from and payload.to of the calls explored; NoSquare: not given
AgentFroms == {Sq("e", 7), Sq("f", 2), Sq("e", 5)}
AgentTos == {Sq("e", 5), Sq("f", 3), NoSquare}

\* the handler up to its await: without from or to, or with no piece on from,
\* it returns; else setSelectedSquare(from), setValidMoves(moves of from in
\* gameRef.current) and the wait starts
movePiece(from, to) ==
  LET given == from # NoSquare /\ to # NoSquare
      piece == given /\ gameRef.board[from] # Empty
  IN /\ lastOp' = (IF ~given THEN "agentMissing"
                   ELSE IF piece THEN "agentSelect" ELSE "agentNoPiece")
     /\ mounted /\ ~uncommitted
     /\ Len(moving) < MaxAgentMoves
     /\ moving' = (IF piece
                     THEN Append(moving, [from |-> from, to |-> to,
                                          playerColor |-> playerColor,
                                          isTwoPlayer |-> isTwoPlayer])
                     ELSE moving)
     /\ IF piece
          THEN Render(game, moveHistory, from, Destinations(gameRef, from), difficulty,
                      playerColor, isTwoPlayer, status, showEndModal, FALSE)
          ELSE UNCHANGED <<appVars, timers>>
     /\ UNCHANGED <<mounted, level, searches, replies, uncommitted, configOps>>
     /\ UNCHANGED <<classVars, lookups>>

\* the handler after its await, once validateMove has found the legal moves
\* for {from, to, promotion: 'q'} on gameCopy = new Chess(gameRef.current.fen()):
\* with a move setGame(gameCopy), setMoveHistory(prev => [...prev, san]),
\* setStatus(getStatus(gameCopy, playerColor, isTwoPlayer)) with the values of
\* the call's render; either way setSelectedSquare(null), setValidMoves([]).
\* The updates are rendered later (Commit).
MovePieceResult(call, gameCopy, found) ==
  /\ lastOp' = (IF found = {} THEN "agentRefused" ELSE "agentMove")
  /\ selectedSquare' = NoSquare
  /\ validMoves' = {}
  /\ IF found = {}
       THEN UNCHANGED <<game, moveHistory, status, uncommitted>>
       ELSE /\ HistoryRoom
            /\ game' = MakeMove(gameCopy, CHOOSE m \in found : TRUE)
            /\ moveHistory' = Append(moveHistory, San(gameCopy, CHOOSE m \in found : TRUE))
            /\ status' = getStatus(MakeMove(gameCopy, CHOOSE m \in found : TRUE),
                                   call.playerColor, call.isTwoPlayer)
            /\ uncommitted' = TRUE
  /\ UNCHANGED <<difficulty, playerColor, isTwoPlayer, showEndModal, gameResult,
                 gameRef, mounted, level, storage, notified, skillOption>>

\* the 1000 ms wait of call i is over
MovePieceResume(i) ==
  /\ mounted
  /\ moving' = SubSeq(moving, 1, i - 1) \o SubSeq(moving, i + 1, Len(moving))
  /\ MovePieceResult(moving[i], LoadFen(Fen(gameRef)),
                     MovesFromObject(LoadFen(Fen(gameRef)), moving[i].from,
                                     moving[i].to, "q"))
  /\ UNCHANGED <<engineVars, configOps>>
  /\ UNCHANGED <<classVars, lookups>>

NextAgent ==
  \/ Startup
  \/ Click
  \/ TimerFire
  \/ EngineAnswer
  \/ onEngineMessage
  \/ Commit
  \/ \E from \in AgentFroms, to \in AgentTos : movePiece(from, to)
  \/ \E i \in 1 .. Len(moving) : MovePieceResume(i)

\* the app played by clicks, by the computer and by the agent's movePiece
SpecAgent == Init /\ [][NextAgent]_vars

(***************************************************************************)
(* Launches: the app started on any stored item under any launch parameter,*)
(* played by hand and loaded again.                                        *)
(***************************************************************************)
LaunchRecords ==
  {NoRecord, CorruptRecord, BadFenRecord, NoFenRecord, FreshBlackRecord,
   FreshTwoPlayerRecord, LevelTwoRecord}

InitLaunch ==
  /\ game = createGame
  /\ moveHistory = <<>>
  /\ selectedSquare = NoSquare
  /\ validMoves = {}
  /\ status = "Your turn (White)"
  /\ difficulty = 1
  /\ playerColor = "w"
  /\ isTwoPlayer = FALSE
  /\ showEndModal = FALSE
  /\ gameResult = "win"
  /\ gameRef = createGame
  /\ mounted = FALSE
  /\ level \in LaunchParams
  /\ storage \in LaunchRecords
  /\ notified = 0
  /\ skillOption = NoSkill
  /\ lookups = <<>>
  /\ moving = <<>>
  /\ timers = <<>>
  /\ searches = <<>>
  /\ replies = <<>>
  /\ uncommitted = FALSE
  /\ configOps = 0
  /\ lastOp = "init"
  /\ Constructed

NextLaunch ==
  \/ Startup
  \/ Commit
  \/ Click
  \/ Reload

SpecLaunch == InitLaunch /\ [][NextLaunch]_vars

(***************************************************************************)
(* Knight shuffles: a two-player game in which only the knights move, out  *)
(* and back, so that positions come back.                                  *)
(***************************************************************************)
KnightSquares ==
  {Sq("b", 1), Sq("c", 3), Sq("g", 1), Sq("f", 3),
   Sq("b", 8), Sq("c", 6), Sq("g", 8), Sq("f", 6)}

InitShuffle == Init /\ storage = FreshTwoPlayerRecord

NextShuffle ==
  \/ Startup
  \/ Commit
  \/ \E square \in KnightSquares : onSquareClick(square)

SpecShuffle == InitShuffle /\ [][NextShuffle]_vars

(***************************************************************************)
(* Finished games.  The positions below are restored from localStorage,    *)
(* which the restore effect reads as it finds it, so that every kind of    *)
(* ending is met by the game end effect, not only the mates that short     *)
(* games reach.                                                            *)
(***************************************************************************)
\* White is mated: king h1, black queen g2 and king g3
MatedWhiteFen == "8/8/8/8/8/6k1/6q1/7K w - - 3 60"
\* Black is mated: king h8, white queen g7 and king g6
MatedBlackFen == "7k/6Q1/6K1/8/8/8/8/8 b - - 3 60"
\* White to move has no move and is not in check
StalemateFen == "k7/8/8/8/8/6q1/8/7K w - - 3 60"
\* king against king
BareKingsFen == "4k3/8/8/8/8/8/8/4K3 b - - 0 60"
\* a hundred half-moves without capture or pawn move, rook and king against king
FiftyMoveFen == "4k3/8/8/8/8/8/8/R3K3 b - - 100 60"

EndFens == {MatedWhiteFen, MatedBlackFen, StalemateFen, BareKingsFen, FiftyMoveFen}

\* stored records holding a finished or a fresh position, for either colour and mode
EndRecords ==
  {[kind |-> "json", fen |-> f, moveHistory |-> <<>>, difficulty |-> 1,
    playerColor |-> c, isTwoPlayer |-> t] :
     f \in EndFens \cup {INITIAL_FEN}, c \in Colors, t \in BOOLEAN}

InitEndings ==
  /\ game = createGame
  /\ moveHistory = <<>>
  /\ selectedSquare = NoSquare
  /\ validMoves = {}
  /\ status = "Your turn (White)"
  /\ difficulty = 1
  /\ playerColor = "w"
  /\ isTwoPlayer = FALSE
  /\ showEndModal = FALSE
  /\ gameResult = "win"
  /\ gameRef = createGame
  /\ mounted = FALSE
  /\ level = NoLevel
  /\ storage \in EndRecords
  /\ notified = 0
  /\ skillOption = NoSkill
  /\ lookups = <<>>
  /\ moving = <<>>
  /\ timers = <<>>
  /\ searches = <<>>
  /\ replies = <<>>
  /\ uncommitted = FALSE
  /\ configOps = 0
  /\ lastOp = "init"
  /\ Constructed

NextEndings ==
  \/ Startup
  \/ Commit
  \/ Reload
  \/ ToggleTwoPlayer
  \/ ToggleOnFinished
  \/ resetGame

\* the app started on a stored position and driven by mode toggles, New Game and reloads
SpecEndings == InitEndings /\ [][NextEndings]_vars

(***************************************************************************)
(* Levels: the app started on records of any stored difficulty, with the   *)
(* Next Level button of the end dialog and the agent's setDifficulty.      *)
(***************************************************************************)
\* difficulty values a stored record may hold: state.difficulty is applied as
\* read, whenever it is truthy and the URL names no level
StoredLevels == {0, 1, 4, 5, 6, 7, 9}

\* stored records of a fresh game and of a game the human, White, has won
LevelRecords ==
  {[kind |-> "json", fen |-> f, moveHistory |-> <<>>, difficulty |-> d,
    playerColor |-> "w", isTwoPlayer |-> FALSE] :
     f \in {INITIAL_FEN, MatedBlackFen}, d \in StoredLevels}

\* payload.level values the agent sends: out of range, valid, not a number,
\* and a form feed before '4' and a line separator before '6'
AgentLevels ==
  {Chars("0"), Chars("3"), Chars("7"), Chars("8"), Chars("x"), Chars("07"),
   Chars("2x"), Chars("0x5"), <<12, 52>>, <<8232, 54>>}

\* the agent endpoint setDifficulty: parseInt(payload.level), and when it is
\* within 1..7 setDifficulty(level) and navigate(`?level=${level}`)
AgentSetDifficulty(payloadLevel) ==
  LET parsed == ParseIntNoRadix(payloadLevel)
      valid == parsed >= 1 /\ parsed <= 7
  IN /\ lastOp' = (IF valid THEN "agentLevel" ELSE "agentLevelRefused")
     /\ mounted /\ ~uncommitted
     /\ level' = (IF valid THEN Chars(ToString(parsed)) ELSE level)
     /\ Render(game, moveHistory, selectedSquare, validMoves,
               IF valid THEN parsed ELSE difficulty, playerColor,
               isTwoPlayer, status, showEndModal, FALSE)
     /\ UNCHANGED <<mounted, searches, replies, uncommitted, configOps>>
     /\ UNCHANGED <<classVars, agentVars>>

\* Math.min(difficulty + 1, 7)
NextLevelOf(d) == IF d + 1 < 7 THEN d + 1 ELSE 7

\* handleNextLevel, behind the Next Level button the end dialog shows for a
\* win unless difficulty === 5: navigate, setDifficulty(nextLevel), resetGame()
handleNextLevel ==
  LET newGame == createGame
  IN /\ lastOp' = "nextLevel"
     /\ mounted /\ ~uncommitted
     /\ showEndModal /\ gameResult = "win" /\ difficulty # 5
     /\ level' = Chars(ToString(NextLevelOf(difficulty)))
     /\ Render(newGame, <<>>, NoSquare, {}, NextLevelOf(difficulty), playerColor,
               isTwoPlayer, getStatus(newGame, playerColor, isTwoPlayer), FALSE, TRUE)
     /\ UNCHANGED <<mounted, searches, replies, uncommitted, configOps>>
     /\ UNCHANGED <<classVars, agentVars>>

InitLevels ==
  /\ game = createGame
  /\ moveHistory = <<>>
  /\ selectedSquare = NoSquare
  /\ validMoves = {}
  /\ status = "Your turn (White)"
  /\ difficulty = 1
  /\ playerColor = "w"
  /\ isTwoPlayer = FALSE
  /\ showEndModal = FALSE
  /\ gameResult = "win"
  /\ gameRef = createGame
  /\ mounted = FALSE
  /\ level \in LaunchParams
  /\ storage \in LevelRecords \cup {NoRecord}
  /\ notified = 0
  /\ skillOption = NoSkill
  /\ lookups = <<>>
  /\ moving = <<>>
  /\ timers = <<>>
  /\ searches = <<>>
  /\ replies = <<>>
  /\ uncommitted = FALSE
  /\ configOps = 0
  /\ lastOp = "init"
  /\ Constructed

NextLevels ==
  \/ Startup
  \/ Commit
  \/ Reload
  \/ Click
  \/ \E d \in LevelChoices : ChangeDifficulty(d)
  \/ \E payloadLevel \in AgentLevels : AgentSetDifficulty(payloadLevel)
  \/ handleNextLevel

\* the app started on a stored difficulty and driven through every way of
\* changing the level
SpecLevels == InitLevels /\ [][NextLevels]_vars

(***************************************************************************)
(* Properties.                                                             *)
(***************************************************************************)
\* same placement and side to move; r may be Invalid
Reproduces(r, g) == r.turn = g.turn /\ r.board = g.board

\* C1: in every reachable state, replaying moveHistory move by move from the
\* standard initial position through the rules engine yields the current
\* position: same placement, same side to move.
C1_ReplayReproducesPosition == Reproduces(Replay(moveHistory), game)

\* C2: a bestmove line whose search was started for another position than the
\* one current when the line is handled (every earlier update rendered) is
\* discarded: it changes neither the position nor the history.
C2_StaleReplyDiscarded ==
  [][(onEngineMessage /\ ~uncommitted /\ Head(replies).for # Fen(game))
       => (game' = game /\ moveHistory' = moveHistory)]_vars

\* C3: when getBestMove is called again while an earlier call's promise is
\* still pending, the earlier promise never resolves with a move, and the later
\* promise resolves, if it does, with the line that answers its own search.
C3_SecondCallSupersedes ==
  \A j \in 1 .. Len(calls) :
    /\ \A i \in calls[j].waiting : calls[i].promise.state # "move"
    /\ calls[j].waiting # {} /\ calls[j].promise # PendingPromise
         => calls[j].promise.line = calls[j].go

\* the turn gate as the turn rule words it: the game is over, or the game is
\* single-player and the side to move is not the configured player colour
Gated == isGameOver(game) \/ (~isTwoPlayer /\ game.turn # playerColor)

\* C4: a square click changes nothing (position, history, selection,
\* destinations, status) whenever the game is over, or the game is
\* single-player and the side to move is not the configured player colour.
C4_GatedClickChangesNothing ==
  [][\A t \in PlaySquares :
       (onSquareClick(t) /\ Gated)
         => UNCHANGED <<game, moveHistory, selectedSquare, validMoves, status>>]_vars

\* a gated click was made on a finished game and left everything in place
C4_Witness == lastOp = "clickIgnored" /\ isGameOver(game) /\ moveHistory # <<>>

\* the click on t comes with a square selected and the rules engine answers
\* move for {from: selectedSquare, to: t, promotion: 'q'}
Accepted(move) == selectedSquare # NoSquare /\ move # NoMove
Rejected(move) == selectedSquare # NoSquare /\ move = NoMove

\* what an accepted move m leaves: no selection, no destinations, its notation
\* appended to the history, the position it leads to, the other side to move
MoveApplied(m) ==
  /\ selectedSquare' = NoSquare
  /\ validMoves' = {}
  /\ moveHistory' = Append(moveHistory, San(game, m))
  /\ Reproduces(MakeMove(game, m), game')
  /\ game'.turn = Other(game.turn)

\* C5: with a square s selected, a click on a square t for which the
\* rules engine accepts {from s, to t, promotion queen} ends with no selection
\* and no destinations, appends the move's notation to the history and
\* replaces the position by the resulting one, the other side to move.
C5_Original ==
  [][\A t \in PlaySquares :
       (onSquareClick(t) /\ Accepted(validateMove(game, selectedSquare, t, "q")))
         => MoveApplied(validateMove(game, selectedSquare, t, "q"))]_vars

\* C5 holds of the clicks the turn gate lets through: the property fails
\* only where a selection stands while the gate is closed.
C5_AcceptedMoveApplied ==
  [][\A t \in PlaySquares :
       (onSquareClick(t) /\ ~Gated
          /\ Accepted(validateMove(game, selectedSquare, t, "q")))
         => MoveApplied(validateMove(game, selectedSquare, t, "q"))]_vars

\* an accepted move has just been made by click
C5_Witness ==
  lastOp = "clickMove" /\ moveHistory # <<>> /\ selectedSquare = NoSquare /\ validMoves = {}

\* the square holds a piece the human may move now
HumanPiece(t) ==
  game.board[t] # Empty /\ game.board[t].c = (IF isTwoPlayer THEN game.turn ELSE playerColor)

\* what a rejected move leaves: position and history as they were, the
\* selection on t with its legal destinations when t holds a piece the human
\* may move now, no selection otherwise
MoveRefused(t) ==
  /\ game' = game
  /\ moveHistory' = moveHistory
  /\ IF HumanPiece(t)
       THEN selectedSquare' = t /\ validMoves' = {m.to : m \in MovesFrom(game, t)}
       ELSE selectedSquare' = NoSquare /\ validMoves' = {}

\* C6: with a square selected, a click whose move the rules engine
\* rejects leaves position and history unchanged; the selection moves to the
\* clicked square (with its legal destinations) if it holds a piece the human
\* may move now, and is cleared otherwise.
C6_Original ==
  [][\A t \in PlaySquares :
       (onSquareClick(t) /\ Rejected(validateMove(game, selectedSquare, t, "q")))
         => MoveRefused(t)]_vars

\* C6 holds of the clicks the turn gate lets through: the property fails
\* only where a selection stands while the gate is closed.
C6_RejectedMoveReselects ==
  [][\A t \in PlaySquares :
       (onSquareClick(t) /\ ~Gated
          /\ Rejected(validateMove(game, selectedSquare, t, "q")))
         => MoveRefused(t)]_vars

\* a rejected move has just moved the selection to another of the human's pieces
C6_Witness == lastOp = "clickReselect" /\ selectedSquare # NoSquare /\ validMoves # {}

\* the square holds a piece of the side allowed to move now: the game goes on,
\* and the piece is of the side to move, which in single-player mode is the
\* configured player colour
AllowedNow(t) ==
  /\ game.board[t] # Empty
  /\ ~isGameOver(game)
  /\ game.board[t].c = game.turn
  /\ isTwoPlayer \/ game.turn = playerColor

\* C7: with no selection, a click selects the clicked square exactly when it
\* holds a piece of the side allowed to move now, and then validMoves is the
\* set of legal destinations of that piece in the current position; any other
\* click leaves the state with no selection.
C7_ClickSelectsOwnPiece ==
  [][\A t \in PlaySquares :
       (onSquareClick(t) /\ selectedSquare = NoSquare)
         => IF AllowedNow(t)
              THEN selectedSquare' = t /\ validMoves' = {m.to : m \in MovesFrom(game, t)}
              ELSE selectedSquare' = NoSquare]_vars

\* a piece has just been selected and has somewhere to go
C7_Witness == lastOp = "clickSelect" /\ selectedSquare # NoSquare /\ validMoves # {}

\* C8: an undo that goes through removes exactly the last k entries of the
\* history (k = 1 in two-player mode, 2 in single-player mode), keeps the rest
\* in order, and sets the position to the replay of what is left.
C8_UndoTruncatesAndReplays ==
  [][(UndoButton /\ moveHistory' # moveHistory)
       => /\ Len(moveHistory) >= (IF isTwoPlayer THEN 1 ELSE 2)
          /\ moveHistory' = SubSeq(moveHistory, 1,
                                   Len(moveHistory) - (IF isTwoPlayer THEN 1 ELSE 2))
          /\ Reproduces(Replay(moveHistory'), game')]_vars

\* an undo has just gone through and left moves to replay
C8_Witness == lastOp = "undo" /\ moveHistory # <<>>

\* C9: Undo changes nothing (position, history, selection) when the history
\* holds fewer moves than the undo count, and when the game is single-player
\* and the side to move is not the configured player colour.
C9_UndoRefused ==
  [][(UndoButton /\ (\/ Len(moveHistory) < (IF isTwoPlayer THEN 1 ELSE 2)
                     \/ (~isTwoPlayer /\ game.turn # playerColor)))
       => UNCHANGED <<game, moveHistory, selectedSquare, validMoves>>]_vars

\* Undo was pressed with enough history while the computer was to move
C9_Witness ==
  /\ lastOp = "undoDisabled"
  /\ ~isTwoPlayer /\ game.turn # playerColor
  /\ Len(moveHistory) >= 2

\* the turn messages
TurnMessages ==
  {"White's turn", "Black's turn", "Your turn (White)", "Your turn (Black)",
   "Computer is thinking..."}

\* C10: once a human move, an engine move, an undo, a reset or a mode toggle
\* has settled, the status shows "Checkmate! X wins." (X the side not to move)
\* for a mate, else "Draw!" for a draw, else "Check!" for a check, and a turn
\* message only otherwise.
C10_StatusPrecedence ==
  (lastOp \in {"clickMove", "commit", "undo", "reset", "toggle"} /\ ~uncommitted)
    => status = (IF isCheckmate(game)
                   THEN (IF game.turn = "w" THEN "Checkmate! Black wins."
                                           ELSE "Checkmate! White wins.")
                 ELSE IF isDraw(game) THEN "Draw!"
                 ELSE IF isCheck(game) THEN "Check!"
                 ELSE IF status \in TurnMessages THEN status ELSE "a turn message")

\* C11: while two-player mode is on and the game is not over, the settled
\* status names the side to move ("White's turn" or "Black's turn"); it is
\* never "Computer is thinking..." nor "Your turn (...)", also right after an
\* engine reply requested before the mode was switched on.
C11_TwoPlayerNamesSideToMove ==
  (mounted /\ ~uncommitted /\ isTwoPlayer /\ ~isGameOver(game))
    => status = (IF game.turn = "w" THEN "White's turn" ELSE "Black's turn")

\* an engine reply has been applied and committed while two-player mode is on
C11_Witness == lastOp = "commit" /\ isTwoPlayer /\ ~isGameOver(game)

\* the result the game end rule gives a finished position
ExpectedResult(g, pcol) ==
  IF isCheckmate(g) THEN (IF g.turn = pcol THEN "loss" ELSE "win") ELSE "draw"

\* C12: once settled, a finished single-player game has the result 'loss' for
\* a mate with the configured player colour to move, 'win' for a mate with the
\* other colour to move, 'draw' for every other ending; and no step that ends
\* in two-player mode records a result or opens the end modal.
C12_ResultClassified ==
  [][/\ isTwoPlayer' => (gameResult' = gameResult /\ (showEndModal' => showEndModal))
     /\ (mounted' /\ ~uncommitted' /\ ~isTwoPlayer' /\ isGameOver(game'))
          => gameResult' = ExpectedResult(game', playerColor')]_vars

\* a stalemate, bare kings or fifty-move ending is on display for a player
\* who has Black, and the result recorded is a draw
C12_Witness ==
  /\ mounted /\ ~isTwoPlayer /\ playerColor = "b"
  /\ isGameOver(game) /\ ~isCheckmate(game)
  /\ gameResult = "draw" /\ showEndModal

\* C13: the game end notification (result recorded, end modal opened) runs at
\* most once for a finished position: later re-evaluations of the same
\* position, such as those a Two Players toggle causes, do not run it again.
C13_NotifiedOnce == notified <= 1

\* the token names a legal move of position g
LegalLine(g, u) ==
  \E m \in AllMoves(g) :
    m.from = u.from /\ m.to = u.to /\ (u.promotion = "-" \/ u.promotion = m.promotion)

\* C14: a bestmove line whose token is '(none)', is missing, or names no legal
\* move of the current position (the one on display, which the callback reads
\* from gameRef) leaves position and history unchanged.
C14_BadLineIgnored ==
  [][(onEngineMessage /\ ~LegalLine(gameRef, Head(replies).move))
       => (game' = game /\ moveHistory' = moveHistory)]_vars

\* a line has just been dropped in the middle of a game
C14_Witness == lastOp = "engineDrop" /\ moveHistory # <<>> /\ ~uncommitted

\* the launch parameter names a level
\* the text is a decimal numeral: digits and nothing else
IntegerText(str) == str # <<>> /\ \A i \in 1 .. Len(str) : str[i] \in 48 .. 57

LaunchValid == IntegerText(level) /\ ParseInt(level) >= 1 /\ ParseInt(level) <= 7

\* the placement of a position text: what stands before its first space
PlacementOf(text) ==
  LET n == CHOOSE i \in 1 .. Len(text) :
             /\ SubSeq(text, i, i) = " "
             /\ \A j \in 1 .. (i - 1) : SubSeq(text, j, j) # " "
  IN SubSeq(text, 1, n - 1)

\* the stored item holds no position: absent, not JSON, or a record whose fen
\* is missing or places no king of some colour
Unusable(rec) ==
  \/ rec.kind # "json"
  \/ ~Has(rec, "fen")
  \/ \E king \in {"K", "k"} :
       \A i \in 1 .. Len(PlacementOf(rec.fen)) : SubSeq(PlacementOf(rec.fen), i, i) # king

\* C15: started on no record, on one that is not JSON or on one whose fen is
\* no position, the mount effects leave a fresh game: initial position, empty
\* history, nothing selected, White against the computer, and the difficulty
\* is 1 without a launch parameter and the launch level when that is an
\* integer in 1..7; no field of the record is applied.
C15_FreshGameOnBadRecord ==
  [][(~mounted /\ mounted' /\ Unusable(storage))
       => /\ FenText(Fen(game')) = INITIAL_FEN
          /\ moveHistory' = <<>>
          /\ selectedSquare' = NoSquare
          /\ playerColor' = "w"
          /\ isTwoPlayer' = FALSE
          /\ level = NoLevel => difficulty' = 1
          /\ LaunchValid => difficulty' = ParseInt(level)]_vars

\* C16: a state closed and loaded again without launch parameter comes back.
\* When a rendered state is closed, the stored item is the record of that
\* state; the mount effects that follow a reload set the record's position
\* text, its move history, its difficulty, its player colour and its mode,
\* although the first save has by then put the record of the defaults in its
\* place; the render that follows leaves what was set and writes the same
\* record again.
C16_SaveThenRestore ==
  [][/\ (lastOp' = "reload" /\ ~uncommitted)
          => storage = SavedRecord(game, moveHistory, difficulty, playerColor,
                                   isTwoPlayer)
     /\ (lastOp = "reload" /\ mounted' /\ level = NoLevel)
          => /\ storage.kind = "json"
             /\ FenText(Fen(game')) = storage.fen
             /\ moveHistory' = storage.moveHistory
             /\ difficulty' = storage.difficulty
             /\ playerColor' = storage.playerColor
             /\ isTwoPlayer' = storage.isTwoPlayer
             /\ storage' = SavedRecord(createGame, <<>>, 1, "w", FALSE)
     /\ (lastOp = "startup" /\ configOps > 0 /\ level = NoLevel /\ lastOp' = "commit")
          => /\ UNCHANGED <<game, moveHistory, difficulty, playerColor, isTwoPlayer>>
             /\ storage' = SavedRecord(game, moveHistory, difficulty, playerColor,
                                       isTwoPlayer)]_vars

\* a game played to Black's second move in two-player mode was closed, loaded
\* again and rendered
C16_Witness ==
  /\ lastOp = "commit" /\ level = NoLevel /\ configOps = 1 /\ ~uncommitted
  /\ Len(moveHistory) = MaxHistory /\ isTwoPlayer
  /\ storage = SavedRecord(game, moveHistory, difficulty, playerColor, isTwoPlayer)

\* C17: on a usable record the mount effects set the launch level as the
\* difficulty when that is an integer in 1..7 and the stored difficulty
\* otherwise; position, history, colour and mode come from the record either
\* way.
C17_LaunchOverridesStoredLevel ==
  [][(~mounted /\ mounted' /\ ~Unusable(storage))
       => /\ difficulty' = (IF LaunchValid THEN ParseInt(level) ELSE storage.difficulty)
          /\ FenText(Fen(game')) = storage.fen
          /\ moveHistory' = storage.moveHistory
          /\ playerColor' = storage.playerColor
          /\ isTwoPlayer' = storage.isTwoPlayer]_vars

\* C18: whenever the difficulty or the player colour of the running app
\* changes, the step ends on the initial position with an empty history and
\* nothing selected.
C18_LevelOrColourChangeResets ==
  [][(mounted /\ mounted' /\ (difficulty' # difficulty \/ playerColor' # playerColor))
       => /\ FenText(Fen(game')) = INITIAL_FEN
          /\ moveHistory' = <<>>
          /\ selectedSquare' = NoSquare]_vars

\* C19: a getBestMove promise that is pending when the worker has been
\* terminated is eventually resolved with null.
C19_TornDownPromisesResolve ==
  \A i \in 1 .. MaxCalls :
    (stockfish = "terminated" /\ i <= Len(calls) /\ calls[i].promise = PendingPromise)
      ~> (i <= Len(calls) /\ calls[i].promise.state = "null")

\* C20: every best-move lookup the agent starts is eventually resolved, with
\* a move or with a failure, whether or not its worker ever posts a line.
C20_LookupCompletes ==
  \A i \in 1 .. MaxLookups :
    (i <= Len(lookups)) ~> (i <= Len(lookups) /\ lookups[i].promise # PendingLookup)

\* C21: once an operation has settled, the stored record is that of the state
\* on display: its fen is the position's text, its moveHistory the history,
\* and its difficulty, playerColor and isTwoPlayer the configuration.
C21_StoredRecordIsCurrent ==
  (mounted /\ ~uncommitted)
    => /\ storage.kind = "json"
       /\ storage.fen = FenText(Fen(game))
       /\ storage.moveHistory = moveHistory
       /\ storage.difficulty = difficulty
       /\ storage.playerColor = playerColor
       /\ storage.isTwoPlayer = isTwoPlayer

\* an engine move has been committed in a game of several moves, and stored
C21_Witness ==
  /\ lastOp = "commit" /\ Len(moveHistory) >= 2
  /\ storage.kind = "json" /\ storage.moveHistory = moveHistory

\* the game waits for the computer: single-player, not over, the side to move
\* is not the player's (and the explored history has room for a move)
EngineToMove ==
  /\ mounted /\ ~isTwoPlayer /\ ~isGameOver(game) /\ game.turn # playerColor
  /\ HistoryRoom

\* a search of the position on display has been sent to the worker
SearchSent ==
  \/ \E i \in 1 .. Len(searches) : searches[i].fen = Fen(game)
  \/ \E i \in 1 .. Len(replies) : replies[i].for = Fen(game)

\* C22: whenever the game waits for the computer, a search of the position is
\* eventually sent and the game eventually stops waiting: an engine move is
\* applied (or the user has taken the game elsewhere).
C22_EngineTurnEnds ==
  /\ EngineToMove ~> (SearchSent \/ ~EngineToMove)
  /\ EngineToMove ~> (lastOp = "engineMove" \/ ~EngineToMove)

\* an engine move has been applied after a configuration change in single-player mode
C22_Witness ==
  lastOp = "engineMove" /\ ~isTwoPlayer /\ configOps = 1 /\ game.turn = playerColor

\* the position on display stands for the third time (or more) in the game
\* that moveHistory records
ThirdOccurrence == isThreefoldRepetition(Replay(moveHistory))

\* C23: when the position on display occurs for the third time in the game,
\* the game is over, and in single-player mode it is recorded as a draw.
C23_ThirdOccurrenceEndsGame ==
  (mounted /\ ~uncommitted /\ ThirdOccurrence)
    => /\ isGameOver(game)
       /\ ~isTwoPlayer => (gameResult = "draw" /\ showEndModal)

\* C24: on the wire 'uci' comes first and only there, every 'go' directly
\* follows a 'position', and the 'go' of a getBestMove call directly follows
\* the 'position' of that call's fen.
C24_WireOrder ==
  /\ wire # <<>> /\ wire[1] = Msg("uci", "")
  /\ \A i \in 2 .. Len(wire) :
       /\ wire[i].cmd # "uci"
       /\ wire[i].cmd = "go" => wire[i - 1].cmd = "position"
  /\ \A j \in 1 .. Len(calls) :
       /\ wire[calls[j].go].cmd = "go"
       /\ wire[calls[j].go - 1] = Msg("position", calls[j].fen)

\* both kinds of request are on the wire: the go of a getBestMove call and,
\* after it, the go of an evaluatePosition
C24_Witness ==
  \E j \in 1 .. Len(calls), k \in 1 .. Len(wire) :
    /\ calls[j].go < k
    /\ wire[k].cmd = "go"
    /\ \A c \in 1 .. Len(calls) : calls[c].go # k

\* C25: an engine reply changes the position only when, as it arrives, the game
\* is in single-player mode, is not over and the side to move is not the
\* player's colour; in two-player mode no engine reply moves a piece.
C25_ReplyMovesOnlyOnEngineTurn ==
  [][lastOp' = "engineMove" =>
       /\ ~isTwoPlayer
       /\ ~isGameOver(game)
       /\ game.turn # playerColor]_vars

\* C26: with no selected square validMoves is empty; a selected square holds,
\* in the current position, a piece of the side allowed to move now, and
\* validMoves is the set of that piece's legal destinations in the current
\* position.
C26_SelectionMatchesPosition ==
  mounted =>
    IF selectedSquare = NoSquare
      THEN validMoves = {}
      ELSE /\ game.board[selectedSquare] # Empty
           /\ game.board[selectedSquare].c = game.turn
           /\ isTwoPlayer \/ game.turn = playerColor
           /\ validMoves = Destinations(game, selectedSquare)

\* C27: in every reachable state the difficulty level is an integer in 1..7.
C27_DifficultyInRange == difficulty \in 1 .. 7

\* the worker's oldest search has just ended and its line been handed over
LineDelivered == stockfish' = stockfish /\ working # <<>> /\ working' = Tail(working)

\* C28: with overlapping getBestMove calls, the callback registered with
\* onEngineMessage receives every engine line exactly once, and once every
\* getBestMove promise has resolved the message handler is again exactly the
\* registered callback, under no wrapper.
C28_CallbackRestored ==
  [][LineDelivered =>
       /\ onMessage.base = "callback" => heard' = heard + 1
       /\ (\A j \in 1 .. Len(calls') : calls'[j].promise # PendingPromise)
            => onMessage'.wraps = <<>>]_vars

\* the text getStatus gives for a finished game
TerminalText(g) ==
  IF isCheckmate(g)
    THEN (IF g.turn = "w" THEN "Checkmate! Black wins." ELSE "Checkmate! White wins.")
    ELSE "Draw!"

\* C29: whenever the current position is game-over, also when it was restored
\* at startup, the displayed status is the terminal text for it and no turn
\* message.
C29_FinishedGameShowsResult ==
  (mounted /\ ~uncommitted /\ isGameOver(game)) => status = TerminalText(game)

\* C30: an undo that goes through in single-player mode leaves the side to
\* move unchanged: right after it the side to move is the player's colour, and
\* the undo schedules no engine search.
C30_UndoKeepsTurn ==
  [][(lastOp' = "undo" /\ ~isTwoPlayer)
       => /\ game'.turn = game.turn
          /\ game'.turn = playerColor
          /\ timers' = timers]_vars

TypeOK ==
  /\ skillOption \in {NoSkill} \cup {levels[d].skill : d \in 1 .. Len(levels)}
  /\ mounted /\ ~uncommitted => skillOption = currentLevel(difficulty).skill
  /\ selectedSquare \in Squares \cup {NoSquare}
  /\ validMoves \subseteq Squares
  /\ difficulty \in Nat
  /\ playerColor \in Colors
  /\ isTwoPlayer \in BOOLEAN
  /\ Len(moveHistory) <= MaxShuffle

====
